---- MODULE Spec2Model ----
(***************************************************************************)
(* kora-personal: the TrackNode aggregate (src/core/graph/track-node.ts),  *)
(* the track identifier (track-identifier.ts) and the processor of the     *)
(* Spotify streaming history (src/processors/spotify-processor.ts).        *)
(*                                                                         *)
(* A JavaScript value is a record [tag, num, str]:                         *)
(*   tag "finite"     a finite number, its value in num (an integer below  *)
(*                    2^31 in absolute value);                             *)
(*   tag "large"      the double high * 2^53 + num, for high >= 1 and num  *)
(*                    a multiple of the spacing of the doubles there: a    *)
(*                    fourth field, high, holds the multiple of 2^53;      *)
(*   tag "NaN", "Infinity", "-Infinity"   the three non-finite numbers;    *)
(*   tag "string"     a string, its characters in str (a sequence of       *)
(*                    one-character strings);                              *)
(*   tag "undefined", "null", "object"    the two absent values and a      *)
(*                    plain object ({}).                                   *)
(* Below 2^53 the double arithmetic of the code is exact on integers; from  *)
(* 2^53 on, a sum is rounded to the nearest double, ties to the even       *)
(* mantissa (RoundToDouble). Numbers with a fractional part have no        *)
(* encoding, and the reads that divide (FloorOfQuotient, Remainder,        *)
(* RoundOfQuotient) and String(v) are defined below 2^53 only.             *)
(***************************************************************************)
EXTENDS Integers, Sequences, FiniteSets, TLC

VARIABLES
    node,       \* the TrackNode: universalId, metadata, #platformUris,
                \* #totalPlays, #totalPlayTime, #position
    thrown,     \* the error the last call raised: "none" or "TypeError"
    lastCall,   \* history: the last call, [op, arg, ret]: the method or getter
                \* ("new" for the constructor), its argument, the value returned
    prev,       \* history: the TrackNode as it was before the last call
    nCalls,     \* history: the number of calls made on the node
    played,     \* history: the arguments addPlay was called with, in order,
                \* where the play statistics are followed
    uriCalls,   \* history: the number of calls of addPlatformUri that passed
                \* its test, where all the operations are followed
    callsA,     \* the fold: a sequence of calls, [op, arg]
    callsB,     \* the fold: the same calls in another order
    foldA,      \* the fold: the TrackNode that receives callsA
    foldB,      \* the fold: the TrackNode that receives callsB
    doneA,      \* the fold: how many of callsA foldA has received
    doneB,      \* the fold: how many of callsB foldB has received
    heap,       \* the objects: the sequence of the objects allocated so far,
                \* an object's reference being its index
    self,       \* the objects: the TrackNode, its object fields as references
    held,       \* the objects: the references the caller holds, [from, ref],
                \* from naming how the caller came by the object
    lastStep,   \* the objects, history: the last step, [op, from]
    reported,   \* the objects, history: what the TrackNode reported before
                \* the last step
    heapSteps,  \* the objects, history: the number of steps taken
    given,      \* the identifier: the metadata given
    respelled,  \* the identifier: the same metadata spelled another way
    respellings, \* the identifier, history: the number of changes from given to respelled
    identity,   \* the identifier: generateTrackId(given), once computed
    identityAlt,\* the identifier: generateTrackId(respelled), once computed
    parsedId,   \* the identifier: parseTrackId(identity), once computed
    normIn,     \* the normalizer: the value given to normalizeString
    normOut,    \* the normalizer: the results of normalizeString applied to
                \* normIn once, twice
    file,       \* the pipeline: what is at filePath, [exists, parses, value]:
                \* whether there is a file to read, whether JSON.parse takes
                \* its content, and the value JSON.parse makes of it
    timeZone,   \* the pipeline: the offset of the local time of the runtime
                \* from UTC, in minutes
    source,     \* the pipeline: rawEntries, once JSON.parse has returned
    loaded,     \* the pipeline: the promise processStreamingHistoryFile
                \* returns, [state, items, error]: "uncalled" before the
                \* call, then "pending", then "fulfilled" or "rejected"
    trackPlays, \* the pipeline: how convertToTrackPlays ended, [state, items]
    otherTasks  \* the pipeline, history: the tasks of the caller that ran
                \* while the promise was pending

nodeVars == <<node, thrown, lastCall, prev, nCalls, played, uriCalls>>
foldVars == <<callsA, callsB, foldA, foldB, doneA, doneB>>
heapVars == <<heap, self, held, lastStep, reported, heapSteps>>
identVars == <<given, respelled, respellings, identity, identityAlt, parsedId, normIn, normOut>>
pipeVars == <<file, timeZone, source, loaded, trackPlays, otherTasks>>
vars == <<nodeVars, foldVars, heapVars, identVars, pipeVars>>

\* The number of calls made on one TrackNode.
MaxCalls == 2

\* The number of calls folded into one TrackNode.
MaxFoldCalls == 3
MaxRespellings == 2

\* The number of plays recorded in one run of SpecStats.
MaxPlays == 3

\* The number of steps the caller takes on the objects of SpecHeap.
MaxHeapSteps == 3

\* The length of the strings given to normalizeString in SpecNormalize.
MaxStrLen == 3

\* The length of the strings given to parseTrackId in SpecParse.
MaxIdLen == 8

\* The number of entries in the history file of SpecPipeline.
MaxEntries == 2

MaxOtherTasks == 2

----------------------------------------------------------------------------
(* JavaScript values and the operators the code applies to them.           *)

Undefined == [tag |-> "undefined", num |-> 0, str |-> <<>>]
Null == [tag |-> "null", num |-> 0, str |-> <<>>]
EmptyObject == [tag |-> "object", num |-> 0, str |-> <<>>]
NaN == [tag |-> "NaN", num |-> 0, str |-> <<>>]
PosInfinity == [tag |-> "Infinity", num |-> 0, str |-> <<>>]
NegInfinity == [tag |-> "-Infinity", num |-> 0, str |-> <<>>]
Num(n) == [tag |-> "finite", num |-> n, str |-> <<>>]
\* the double h * 2^53 + l, for h >= 1
Large(h, l) == [tag |-> "large", num |-> l, str |-> <<>>, high |-> h]
Str(s) == [tag |-> "string", num |-> 0, str |-> s]

\* typeof v
TypeOf(v) ==
    CASE v.tag \in {"finite", "large", "NaN", "Infinity", "-Infinity"} -> "number"
      [] v.tag = "string" -> "string"
      [] v.tag = "undefined" -> "undefined"
      [] OTHER -> "object"

\* ToBoolean(v), as `v && ...` and `v || ...` apply it
Truthy(v) ==
    CASE v.tag = "finite" -> v.num # 0
      [] v.tag \in {"large", "Infinity", "-Infinity", "object"} -> TRUE
      [] v.tag = "string" -> v.str # <<>>
      [] OTHER -> FALSE

\* a || b
Or(a, b) == IF Truthy(a) THEN a ELSE b

\* isNaN(v), for v a number (the code calls it behind typeof v === 'number')
IsNaN(v) == v.tag = "NaN"

\* v > 0, for v a number
GreaterThanZero(v) ==
    CASE v.tag = "finite" -> v.num > 0
      [] v.tag \in {"large", "Infinity"} -> TRUE
      [] OTHER -> FALSE

\* The double nearest to the integer h * 2^53 + l, for h >= 0 and l >= 0.
\* Below 2^53 every integer is a double. From 2^53 on the doubles between
\* 2^(52+k) and 2^(53+k) are the multiples of 2^k, and an integer half way
\* between two of them goes to the one whose mantissa is even.
RoundToDouble(h, l) ==
    IF h = 0 THEN Num(l)
    ELSE LET k == CHOOSE e \in 1..30 : 2^(e - 1) <= h /\ h < 2^e
             ulp == 2^k
             q == l \div ulp
             r == l % ulp
         IN  IF 2 * r < ulp \/ (2 * r = ulp /\ q % 2 = 0)
             THEN Large(h, q * ulp)
             ELSE Large(h, (q + 1) * ulp)

\* a + b, for a and b numbers (of two numbers from 2^53 on, neither negative)
Plus(a, b) ==
    CASE a.tag = "NaN" \/ b.tag = "NaN" -> NaN
      [] a.tag = "finite" /\ b.tag = "finite" -> Num(a.num + b.num)
      [] a.tag = "large" /\ b.tag = "finite" /\ b.num >= 0 ->
             RoundToDouble(a.high, a.num + b.num)
      [] a.tag = "finite" /\ b.tag = "large" /\ a.num >= 0 ->
             RoundToDouble(b.high, a.num + b.num)
      [] a.tag = "large" /\ b.tag = "large" ->
             RoundToDouble(a.high + b.high, a.num + b.num)
      [] a.tag \in {"finite", "large"} /\ b.tag \in {"Infinity", "-Infinity"} -> b
      [] b.tag \in {"finite", "large"} /\ a.tag \in {"Infinity", "-Infinity"} -> a
      [] a.tag \in {"Infinity", "-Infinity"} /\ a.tag = b.tag -> a
      [] {a.tag, b.tag} = {"Infinity", "-Infinity"} -> NaN

\* The characters String.prototype.trim strips, among those of the model.
WhiteSpace == {" ", "\t", "\n"}

RECURSIVE TrimStart(_)
TrimStart(s) ==
    IF s # <<>> /\ Head(s) \in WhiteSpace THEN TrimStart(Tail(s)) ELSE s

RECURSIVE TrimEnd(_)
TrimEnd(s) ==
    IF s # <<>> /\ s[Len(s)] \in WhiteSpace
    THEN TrimEnd(SubSeq(s, 1, Len(s) - 1))
    ELSE s

\* s.trim()
Trim(s) == TrimEnd(TrimStart(s))

\* Faulty variant: an array that is pushed to, where the code has a Set.
SetAdd_Push(set, v) == Append(set, v)

\* Set.prototype.add on a Set kept in insertion order
SetAdd(set, v) ==
    IF \E i \in 1..Len(set) : set[i] = v THEN set ELSE Append(set, v)

Range(s) == {s[i] : i \in 1..Len(s)}

----------------------------------------------------------------------------
(* The TrackNode class.  Every method returns [node, threw, ret]: the      *)
(* object after the call, the error raised ("none" when the call returns)  *)
(* and the value returned.                                                 *)

UnknownArtist ==
    Str(<<"U", "n", "k", "n", "o", "w", "n", " ", "A", "r", "t", "i", "s", "t">>)
UnknownTitle ==
    Str(<<"U", "n", "k", "n", "o", "w", "n", " ", "T", "i", "t", "l", "e">>)

Origin == [x |-> Num(0), y |-> Num(0), z |-> Num(0)]

\* The object a constructor call leaves when reading metadata.artist throws:
\* the field initialisers and the first assignment have run, nothing else.
Unbuilt(universalId) ==
    [universalId |-> universalId,
     metadata |-> Undefined,
     platformUris |-> <<>>,
     totalPlays |-> 0,
     totalPlayTime |-> Num(0),
     position |-> Undefined]

\* Faulty variant: the album is given a label too, as the artist and the title are.
DefaultedMetadata_AlbumLabelled(metadata) ==
    [artist |-> Or(metadata.artist, UnknownArtist),
     title |-> Or(metadata.title, UnknownTitle),
     album |-> Or(metadata.album, Str(<<"U", "n", "k", "n", "o", "w", "n">>))]

\* The copy of the metadata the constructor stores, its defaults filled in
DefaultedMetadata(metadata) ==
    [artist |-> Or(metadata.artist, UnknownArtist),
     title |-> Or(metadata.title, UnknownTitle),
     album |-> Or(metadata.album, Str(<<>>))]

\* new TrackNode(universalId, metadata)
TrackNode(universalId, metadata) ==
    IF metadata.tag \in {"null", "undefined"}
    THEN [node |-> Unbuilt(universalId), threw |-> "TypeError", ret |-> Undefined]
    ELSE [node |->
             [universalId |-> universalId,
              metadata |-> DefaultedMetadata(metadata),
              platformUris |-> <<>>,
              totalPlays |-> 0,
              totalPlayTime |-> Num(0),
              position |-> Origin],
          threw |-> "none",
          ret |-> Undefined]

\* Faulty variant: the test without its trim(), which lets blank strings in.
UriAccepted_NoTrim(platformUri) ==
    Truthy(platformUri) /\ TypeOf(platformUri) = "string"

\* The test of addPlatformUri
UriAccepted(platformUri) ==
    /\ Truthy(platformUri)
    /\ TypeOf(platformUri) = "string"
    /\ Truthy(Str(Trim(platformUri.str)))

\* Faulty variant: an accepted URI is counted as a play too.
addPlatformUri_CountsPlay(n, platformUri) ==
    [node |->
         IF UriAccepted(platformUri)
         THEN [n EXCEPT !.platformUris = SetAdd(@, platformUri),
                        !.totalPlays = @ + 1]
         ELSE n,
     threw |-> "none",
     ret |-> Undefined]

\* Faulty variant: the URI is stored trimmed, as it was tested.
addPlatformUri_StoresTrimmed(n, platformUri) ==
    [node |->
         IF UriAccepted(platformUri)
         THEN [n EXCEPT !.platformUris = SetAdd(@, Str(Trim(platformUri.str)))]
         ELSE n,
     threw |-> "none",
     ret |-> Undefined]

\* node.addPlatformUri(platformUri)
addPlatformUri(n, platformUri) ==
    [node |->
         IF UriAccepted(platformUri)
         THEN [n EXCEPT !.platformUris = SetAdd(@, platformUri)]
         ELSE n,
     threw |-> "none",
     ret |-> Undefined]

\* Faulty variant: the test without msPlayed > 0.
PlayAccepted_NoSignTest(msPlayed) ==
    TypeOf(msPlayed) = "number" /\ ~IsNaN(msPlayed)

\* Faulty variant: the test with msPlayed >= 0, which counts a skip as a play.
PlayAccepted_CountsSkips(msPlayed) ==
    /\ TypeOf(msPlayed) = "number"
    /\ GreaterThanZero(msPlayed) \/ msPlayed = Num(0)
    /\ ~IsNaN(msPlayed)

\* The test of addPlay
PlayAccepted(msPlayed) ==
    /\ TypeOf(msPlayed) = "number"
    /\ GreaterThanZero(msPlayed)
    /\ ~IsNaN(msPlayed)

\* Faulty variant: the play is counted before the test is made.
addPlay_CountsEveryCall(n, msPlayed) ==
    [node |->
         IF ~(TypeOf(msPlayed) = "number" /\ GreaterThanZero(msPlayed) /\ ~IsNaN(msPlayed))
         THEN [n EXCEPT !.totalPlays = @ + 1]
         ELSE [n EXCEPT !.totalPlays = @ + 1,
                        !.totalPlayTime = Plus(@, msPlayed)],
     threw |-> "none",
     ret |-> Undefined]

\* Faulty variant: the play time is assigned (=) where the code accumulates it (+=).
addPlay_Assigns(n, msPlayed) ==
    [node |->
         IF TypeOf(msPlayed) = "number" /\ GreaterThanZero(msPlayed) /\ ~IsNaN(msPlayed)
         THEN [n EXCEPT !.totalPlays = @ + 1,
                        !.totalPlayTime = msPlayed]
         ELSE n,
     threw |-> "none",
     ret |-> Undefined]

\* node.addPlay(msPlayed)
addPlay(n, msPlayed) ==
    [node |->
         IF PlayAccepted(msPlayed)
         THEN [n EXCEPT !.totalPlays = @ + 1,
                        !.totalPlayTime = Plus(@, msPlayed)]
         ELSE n,
     threw |-> "none",
     ret |-> Undefined]

\* typeof c === 'number' && !isNaN(c), the test setPosition makes of a coordinate
CoordinateAccepted(c) == TypeOf(c) = "number" /\ ~IsNaN(c)

\* Faulty variant: the test forgets the z coordinate.
PositionAccepted_SkipsZ(newPosition) ==
    CoordinateAccepted(newPosition.x) /\ CoordinateAccepted(newPosition.y)

\* The test of setPosition, on a position that has properties to read
PositionAccepted(newPosition) ==
    /\ CoordinateAccepted(newPosition.x)
    /\ CoordinateAccepted(newPosition.y)
    /\ CoordinateAccepted(newPosition.z)

\* node.setPosition(newPosition)
setPosition(n, newPosition) ==
    IF newPosition.tag \in {"null", "undefined"}
    THEN [node |-> n, threw |-> "TypeError", ret |-> Undefined]
    ELSE [node |->
              IF PositionAccepted(newPosition)
              THEN [n EXCEPT !.position =
                        [x |-> newPosition.x, y |-> newPosition.y, z |-> newPosition.z]]
              ELSE n,
          threw |-> "none",
          ret |-> Undefined]

\* Math.floor(a / d), for a a number that is not negative and d a positive integer
FloorOfQuotient(a, d) ==
    CASE a.tag = "finite" -> Num(a.num \div d)
      [] a.tag \in {"NaN", "Infinity"} -> a

\* a % d, for a a number that is not negative and d a positive integer
Remainder(a, d) ==
    CASE a.tag = "finite" -> Num(a.num % d)
      [] a.tag \in {"NaN", "Infinity"} -> NaN

\* Faulty variant: the quotient is truncated, not rounded.
RoundOfQuotient_Truncates(a, d) ==
    CASE a.tag = "finite" -> Num(a.num \div d)
      [] a.tag \in {"NaN", "Infinity"} -> a

\* Math.round(a / d), for a a number that is not negative and d a positive
\* integer: the quotient plus a half, rounded down
RoundOfQuotient(a, d) ==
    CASE a.tag = "finite" -> Num((2 * a.num + d) \div (2 * d))
      [] a.tag \in {"NaN", "Infinity"} -> a

DecimalDigits == <<"0", "1", "2", "3", "4", "5", "6", "7", "8", "9">>

\* The decimal digits of the integer n >= 0
RECURSIVE Digits(_)
Digits(n) ==
    IF n < 10 THEN <<DecimalDigits[n + 1]>>
    ELSE Digits(n \div 10) \o <<DecimalDigits[(n % 10) + 1]>>

\* The value of a string of decimal digits
RECURSIVE DecimalValue(_)
DecimalValue(s) ==
    IF s = <<>> THEN 0
    ELSE 10 * DecimalValue(SubSeq(s, 1, Len(s) - 1))
         + (CHOOSE d \in 0..9 : DecimalDigits[d + 1] = s[Len(s)])

IsDigits(s) == Len(s) > 0 /\ \A i \in 1..Len(s) : s[i] \in Range(DecimalDigits)

\* String(v), for v a number that is not negative
NumberToString(v) ==
    CASE v.tag = "finite" -> Digits(v.num)
      [] v.tag = "Infinity" -> <<"I", "n", "f", "i", "n", "i", "t", "y">>
      [] v.tag = "NaN" -> <<"N", "a", "N">>

\* s.padStart(targetLength, padChar)
RECURSIVE PadStart(_, _, _)
PadStart(s, targetLength, padChar) ==
    IF Len(s) >= targetLength THEN s
    ELSE PadStart(<<padChar>> \o s, targetLength, padChar)

\* Faulty variant: the seconds are written as they are, not padded to two digits.
getFormattedTotalTime_Unpadded(n) ==
    LET totalSeconds == FloorOfQuotient(n.totalPlayTime, 1000)
        minutes == FloorOfQuotient(totalSeconds, 60)
        seconds == Remainder(totalSeconds, 60)
    IN Str(NumberToString(minutes) \o <<":">> \o NumberToString(seconds))

\* node.getFormattedTotalTime()
getFormattedTotalTime(n) ==
    LET totalSeconds == FloorOfQuotient(n.totalPlayTime, 1000)
        minutes == FloorOfQuotient(totalSeconds, 60)
        seconds == Remainder(totalSeconds, 60)
    IN Str(NumberToString(minutes) \o <<":">> \o PadStart(NumberToString(seconds), 2, "0"))

\* Faulty variant: the division is made with no play recorded, and 0 / 0 is NaN.
getAvgPlayDuration_Unguarded(n) ==
    IF n.totalPlays = 0 THEN NaN ELSE RoundOfQuotient(n.totalPlayTime, n.totalPlays)

\* node.getAvgPlayDuration()
getAvgPlayDuration(n) ==
    IF n.totalPlays > 0 THEN RoundOfQuotient(n.totalPlayTime, n.totalPlays) ELSE Num(0)

\* The getters and the derived reads: node.totalPlays, node.totalPlayTime,
\* node.position, node.platformUris, node.getAvgPlayDuration(),
\* node.getFormattedTotalTime()
Getters ==
    {"totalPlays", "totalPlayTime", "position", "platformUris",
     "getAvgPlayDuration", "getFormattedTotalTime"}

get(n, getter) ==
    [node |-> n,
     threw |-> "none",
     ret |-> CASE getter = "totalPlays" -> Num(n.totalPlays)
               [] getter = "totalPlayTime" -> n.totalPlayTime
               [] getter = "position" ->
                      [tag |-> "object", x |-> n.position.x, y |-> n.position.y,
                       z |-> n.position.z]
               [] getter = "getAvgPlayDuration" -> getAvgPlayDuration(n)
               [] getter = "getFormattedTotalTime" -> getFormattedTotalTime(n)
               [] OTHER -> [tag |-> "array", items |-> n.platformUris]]

----------------------------------------------------------------------------
(* The arguments the calls are made with.                                  *)

UniversalIds == {<<"i", "d", "1">>, <<"i", "d", "2">>}

MetadataFields == {Str(<<"a">>), Str(<<>>), Undefined}

MetadataArgs ==
    {[tag |-> "object", artist |-> a, title |-> t, album |-> b] :
        a \in MetadataFields, t \in MetadataFields, b \in MetadataFields}
    \cup {[tag |-> "null", artist |-> Undefined, title |-> Undefined, album |-> Undefined],
          [tag |-> "undefined", artist |-> Undefined, title |-> Undefined, album |-> Undefined]}

PlayArgs ==
    {Num(1), Num(2), Num(59999), Num(0), Num(0 - 1000),
     NaN, PosInfinity, NegInfinity,
     Str(<<"1", "8", "0", "0", "0", "0">>), Undefined, Null}

UriArgs ==
    {Str(<<"s">>), Str(<<"s", " ">>), Str(<<" ", "s">>), Str(<<"t">>),
     Str(<<>>), Str(<<" ">>), Str(<<" ", " ", " ">>), Str(<<"\t", "\n", " ", " ">>),
     Null, Undefined, Num(123), EmptyObject}

Coordinates == {Num(1), NaN, PosInfinity}

\* A position with one coordinate replaced
WithX(p, c) == [p EXCEPT !.x = c]
WithY(p, c) == [p EXCEPT !.y = c]
WithZ(p, c) == [p EXCEPT !.z = c]

OddCoordinates == {NegInfinity, Str(<<"i">>), Undefined}

PositionArgs ==
    LET ones == [tag |-> "object", x |-> Num(1), y |-> Num(1), z |-> Num(1)] IN
    {[tag |-> "object", x |-> x, y |-> y, z |-> z] :
        x \in Coordinates, y \in Coordinates, z \in Coordinates}
    \cup {WithX(ones, c) : c \in OddCoordinates}
    \cup {WithY(ones, c) : c \in OddCoordinates}
    \cup {WithZ(ones, c) : c \in OddCoordinates}
    \cup {[tag |-> "object", x |-> Num(5), y |-> Num(10), z |-> Num(15)],
          [tag |-> "null", x |-> Undefined, y |-> Undefined, z |-> Undefined],
          [tag |-> "undefined", x |-> Undefined, y |-> Undefined, z |-> Undefined]}

----------------------------------------------------------------------------
(* One TrackNode and the calls made on it.                                 *)

\* No fold is under way.
FoldIdle ==
    /\ callsA = <<>>
    /\ callsB = <<>>
    /\ foldA = Unbuilt(<<>>)
    /\ foldB = Unbuilt(<<>>)
    /\ doneA = 0
    /\ doneB = 0

\* No object is followed.
HeapIdle ==
    /\ heap = <<>>
    /\ self = Unbuilt(<<>>)
    /\ held = {}
    /\ lastStep = [op |-> "idle", from |-> "none"]
    /\ reported = Unbuilt(<<>>)
    /\ heapSteps = 0

\* No history file is processed.
PipeIdle ==
    /\ file = [exists |-> FALSE, parses |-> FALSE, value |-> Undefined]
    /\ timeZone = 0
    /\ source = Undefined
    /\ loaded = [state |-> "idle", items |-> <<>>, error |-> "none"]
    /\ trackPlays = [state |-> "idle", items |-> <<>>]
    /\ otherTasks = 0

\* No identity is computed.
IdentIdle ==
    /\ given = Undefined
    /\ respelled = Undefined
    /\ respellings = 0
    /\ identity = Undefined
    /\ identityAlt = Undefined
    /\ parsedId = Undefined
    /\ normIn = Undefined
    /\ normOut = <<>>

Init ==
    /\ \E universalId \in UniversalIds, metadata \in MetadataArgs :
          LET r == TrackNode(universalId, metadata) IN
          /\ node = r.node
          /\ prev = r.node
          /\ thrown = r.threw
          /\ lastCall = [op |-> "new", arg |-> metadata, ret |-> r.ret]
    /\ nCalls = 0
    /\ played = <<>>
    /\ uriCalls = 0
    /\ FoldIdle
    /\ HeapIdle
    /\ PipeIdle
    /\ IdentIdle

\* The constructor returned: there is an object to call.
Built == ~(lastCall.op = "new" /\ thrown # "none")

\* A call may be made: there is an object, and the run is not over.
CanCall == Built /\ nCalls < MaxCalls

\* The call op(arg) was made and ended as r says.
Called(op, arg, r) ==
    /\ node' = r.node
    /\ prev' = node
    /\ thrown' = r.threw
    /\ lastCall' = [op |-> op, arg |-> arg, ret |-> r.ret]
    /\ nCalls' = nCalls + 1

AddPlay ==
    \E msPlayed \in PlayArgs :
        /\ CanCall
        /\ Called("addPlay", msPlayed, addPlay(node, msPlayed))
        /\ UNCHANGED <<played, uriCalls>>
        /\ UNCHANGED <<foldVars, heapVars, identVars, pipeVars>>

AddPlatformUri ==
    \E platformUri \in UriArgs :
        /\ CanCall
        /\ Called("addPlatformUri", platformUri, addPlatformUri(node, platformUri))
        /\ uriCalls' = uriCalls + (IF UriAccepted(platformUri) THEN 1 ELSE 0)
        /\ UNCHANGED played
        /\ UNCHANGED <<foldVars, heapVars, identVars, pipeVars>>

SetPosition ==
    \E newPosition \in PositionArgs :
        /\ CanCall
        /\ Called("setPosition", newPosition, setPosition(node, newPosition))
        /\ UNCHANGED <<played, uriCalls>>
        /\ UNCHANGED <<foldVars, heapVars, identVars, pipeVars>>

Get ==
    \E getter \in Getters :
        /\ CanCall
        /\ Called(getter, Undefined, get(node, getter))
        /\ UNCHANGED <<played, uriCalls>>
        /\ UNCHANGED <<foldVars, heapVars, identVars, pipeVars>>

Next == AddPlay \/ AddPlatformUri \/ SetPosition \/ Get

Spec == Init /\ [][Next]_vars

----------------------------------------------------------------------------
(* The fold of play events into a TrackNode: the same calls made on two    *)
(* fresh TrackNodes, in two orders.                                        *)

FoldCalls ==
    {[op |-> "addPlay", arg |-> v] :
        v \in {Num(1), Num(2), Large(1, 0), PosInfinity, Num(0)}}
    \cup {[op |-> "addPlatformUri", arg |-> u] : u \in {Str(<<"s">>), Str(<<"t">>)}}

\* The TrackNode after the call c
Apply(n, c) ==
    IF c.op = "addPlay" THEN addPlay(n, c.arg).node ELSE addPlatformUri(n, c.arg).node

\* The sequences of calls that hold the calls of s, each as often as s does
Reorderings(s) ==
    LET n == Len(s)
        bijections == {p \in [1..n -> 1..n] : \A i, j \in 1..n : p[i] = p[j] => i = j}
    IN {[i \in 1..n |-> s[p[i]]] : p \in bijections}

FreshNode == TrackNode(<<"i", "d", "1">>, [tag |-> "object", artist |-> Str(<<"a">>),
                 title |-> Str(<<"a">>), album |-> Undefined])

InitFold ==
    /\ node = FreshNode.node
    /\ prev = FreshNode.node
    /\ thrown = "none"
    /\ lastCall = [op |-> "fold", arg |-> Undefined, ret |-> Undefined]
    /\ nCalls = 0
    /\ played = <<>>
    /\ uriCalls = 0
    /\ \E n \in 0..MaxFoldCalls :
          \E s \in [1..n -> FoldCalls] :
              /\ callsA = s
              /\ callsB \in Reorderings(s)
    /\ foldA = FreshNode.node
    /\ foldB = FreshNode.node
    /\ doneA = 0
    /\ doneB = 0
    /\ HeapIdle
    /\ PipeIdle
    /\ IdentIdle

\* foldA receives its next call.
FoldStepA ==
    /\ doneA < Len(callsA)
    /\ foldA' = Apply(foldA, callsA[doneA + 1])
    /\ doneA' = doneA + 1
    /\ UNCHANGED <<nodeVars, heapVars, identVars, pipeVars, callsA, callsB, foldB, doneB>>

\* foldB receives its next call, once foldA has received all of its own.
FoldStepB ==
    /\ doneA = Len(callsA)
    /\ doneB < Len(callsB)
    /\ foldB' = Apply(foldB, callsB[doneB + 1])
    /\ doneB' = doneB + 1
    /\ UNCHANGED <<nodeVars, heapVars, identVars, pipeVars, callsA, callsB, foldA, doneA>>

NextFold == FoldStepA \/ FoldStepB

SpecFold == InitFold /\ [][NextFold]_vars

----------------------------------------------------------------------------
\* The play statistics: a fresh TrackNode receives plays of realistic lengths
\* and is read between them through totalPlays, totalPlayTime,
\* getAvgPlayDuration() and getFormattedTotalTime().

\* Durations in milliseconds: 1 and 2 (averages that fall on a half), just
\* under a second, 45 seconds, an hour; and arguments addPlay judges
StatsPlayArgs ==
    {Num(1), Num(2), Num(999), Num(45000), Num(3600000), Num(0), Num(0 - 5), NaN, PosInfinity}

StatsReads == {"totalPlays", "totalPlayTime", "getAvgPlayDuration", "getFormattedTotalTime"}

InitStats ==
    /\ node = FreshNode.node
    /\ prev = FreshNode.node
    /\ thrown = "none"
    /\ lastCall = [op |-> "new", arg |-> Undefined, ret |-> Undefined]
    /\ nCalls = 0
    /\ played = <<>>
    /\ uriCalls = 0
    /\ FoldIdle
    /\ HeapIdle
    /\ PipeIdle
    /\ IdentIdle

StatsAddPlay ==
    \E msPlayed \in StatsPlayArgs :
        /\ nCalls < MaxPlays
        /\ Called("addPlay", msPlayed, addPlay(node, msPlayed))
        /\ played' = Append(played, msPlayed)
        /\ UNCHANGED uriCalls
        /\ UNCHANGED <<foldVars, heapVars, identVars, pipeVars>>

\* A read: it is not counted as a play.
StatsRead ==
    \E getter \in StatsReads :
        LET r == get(node, getter) IN
        /\ node' = r.node
        /\ prev' = node
        /\ thrown' = r.threw
        /\ lastCall' = [op |-> getter, arg |-> Undefined, ret |-> r.ret]
        /\ UNCHANGED <<nCalls, played, uriCalls>>
        /\ UNCHANGED <<foldVars, heapVars, identVars, pipeVars>>

\* A URI is added between the plays: it is not counted as a play.
StatsAddPlatformUri ==
    LET platformUri == Str(<<"s">>)
        r == addPlatformUri(node, platformUri)
    IN /\ node' = r.node
       /\ prev' = node
       /\ thrown' = r.threw
       /\ lastCall' = [op |-> "addPlatformUri", arg |-> platformUri, ret |-> r.ret]
       /\ UNCHANGED <<nCalls, played, uriCalls>>
       /\ UNCHANGED <<foldVars, heapVars, identVars, pipeVars>>

\* The node is moved between the plays: it is not counted as a play.
StatsSetPosition ==
    LET newPosition == [tag |-> "object", x |-> Num(1), y |-> Num(1), z |-> Num(1)]
        r == setPosition(node, newPosition)
    IN /\ node' = r.node
       /\ prev' = node
       /\ thrown' = r.threw
       /\ lastCall' = [op |-> "setPosition", arg |-> newPosition, ret |-> r.ret]
       /\ UNCHANGED <<nCalls, played, uriCalls>>
       /\ UNCHANGED <<foldVars, heapVars, identVars, pipeVars>>

NextStats == StatsAddPlay \/ StatsRead \/ StatsAddPlatformUri \/ StatsSetPosition

SpecStats == InitStats /\ [][NextStats]_vars

----------------------------------------------------------------------------
\* The TrackNode among the objects of its caller. An object is a record of
\* its properties, kept in heap at the index that is its reference; the node
\* keeps references to its metadata object, its Set of URIs and its position
\* object, and the caller keeps a reference to every object it passed in
\* or was handed.

\* A new object
Alloc(h, obj) == [heap |-> Append(h, obj), ref |-> Len(h) + 1]

\* Faulty variant: the reference itself, where a copy was to be made.
SpreadCopy_Alias(h, ref) == [heap |-> h, ref |-> ref]

\* { ...obj }: a new object with the properties of the object at ref
SpreadCopy(h, ref) == Alloc(h, h[ref])

\* Array.from(set): a new array with the members of the Set at ref
ArrayFrom(h, ref) == Alloc(h, [items |-> h[ref].items])

\* new TrackNode(universalId, metadata), metadata the object at metadataRef:
\* the object literal of the constructor, the Set and the origin are new objects.
TrackNodeAt(h, universalId, metadataRef) ==
    LET m == Alloc(h, DefaultedMetadata(h[metadataRef]))
        u == Alloc(m.heap, [items |-> <<>>])
        p == Alloc(u.heap, Origin)
    IN [heap |-> p.heap,
        self |-> [universalId |-> universalId,
                  metadata |-> m.ref,
                  platformUris |-> u.ref,
                  totalPlays |-> 0,
                  totalPlayTime |-> Num(0),
                  position |-> p.ref]]

\* node.setPosition(newPosition), newPosition the object at ref
setPositionAt(h, s, ref) ==
    IF PositionAccepted(h[ref])
    THEN LET c == SpreadCopy(h, ref) IN
         [heap |-> c.heap, self |-> [s EXCEPT !.position = c.ref]]
    ELSE [heap |-> h, self |-> s]

\* node.addPlatformUri(platformUri): the Set is changed in place
addPlatformUriAt(h, s, platformUri) ==
    IF UriAccepted(platformUri)
    THEN [h EXCEPT ![s.platformUris].items = SetAdd(@, platformUri)]
    ELSE h

\* What the node reports: node.universalId, node.metadata, node.totalPlays,
\* node.totalPlayTime, node.position, node.platformUris
Report(h, s) ==
    [universalId |-> s.universalId,
     metadata |-> h[s.metadata],
     totalPlays |-> s.totalPlays,
     totalPlayTime |-> s.totalPlayTime,
     position |-> h[s.position],
     platformUris |-> h[s.platformUris].items]

\* The metadata objects the caller constructs the node from
HeapMetadata ==
    {[artist |-> artist, title |-> Str(<<"t">>), album |-> album] :
        artist \in {Str(<<"a">>), Str(<<>>)}, album \in {Str(<<"a">>), Undefined}}

\* The position objects the caller writes out for setPosition
HeapPositions ==
    {[x |-> Num(1), y |-> Num(1), z |-> Num(1)],
     [x |-> Num(5), y |-> Num(10), z |-> Num(15)],
     [x |-> NaN, y |-> Num(1), z |-> Num(1)]}

HeapUris == {Str(<<"s">>), Str(<<"t">>), Str(<<" ">>)}

HeapPlays == {Num(1), Num(0)}

\* The caller writes out a metadata object and constructs the node from it.
InitHeap ==
    /\ \E metadata \in HeapMetadata :
          LET a == Alloc(<<>>, metadata)
              r == TrackNodeAt(a.heap, <<"i", "d", "1">>, a.ref)
          IN /\ heap = r.heap
             /\ self = r.self
             /\ held = {[from |-> "ctorArg", ref |-> a.ref]}
             /\ reported = Report(r.heap, r.self)
    /\ lastStep = [op |-> "new", from |-> "none"]
    /\ heapSteps = 0
    /\ node = FreshNode.node
    /\ prev = FreshNode.node
    /\ thrown = "none"
    /\ lastCall = [op |-> "heap", arg |-> Undefined, ret |-> Undefined]
    /\ nCalls = 0
    /\ played = <<>>
    /\ uriCalls = 0
    /\ FoldIdle
    /\ IdentIdle
    /\ PipeIdle

\* A step was taken: op, on an object the caller came by as from says.
Stepped(op, from) ==
    /\ lastStep' = [op |-> op, from |-> from]
    /\ reported' = Report(heap, self)
    /\ heapSteps' = heapSteps + 1
    /\ UNCHANGED <<nodeVars, foldVars, identVars, pipeVars>>

\* node.setPosition({x: ..., y: ..., z: ...}): the caller keeps the object.
HeapSetPositionNew ==
    \E newPosition \in HeapPositions :
        LET a == Alloc(heap, newPosition)
            r == setPositionAt(a.heap, self, a.ref)
        IN /\ heapSteps < MaxHeapSteps
           /\ heap' = r.heap
           /\ self' = r.self
           /\ held' = held \cup {[from |-> "setPositionArg", ref |-> a.ref]}
           /\ Stepped("setPosition", "none")

\* node.setPosition(p), p a position object the caller holds already.
HeapSetPositionHeld ==
    \E c \in held :
        LET r == setPositionAt(heap, self, c.ref) IN
        /\ heapSteps < MaxHeapSteps
        /\ c.from \in {"setPositionArg", "position"}
        /\ heap' = r.heap
        /\ self' = r.self
        /\ held' = held \cup {[from |-> "setPositionArg", ref |-> c.ref]}
        /\ Stepped("setPosition", "none")

\* node.position: a copy is handed out.
HeapGetPosition ==
    LET c == SpreadCopy(heap, self.position) IN
    /\ heapSteps < MaxHeapSteps
    /\ heap' = c.heap
    /\ held' = held \cup {[from |-> "position", ref |-> c.ref]}
    /\ UNCHANGED self
    /\ Stepped("position", "none")

\* node.platformUris: a new array is handed out.
HeapGetPlatformUris ==
    LET c == ArrayFrom(heap, self.platformUris) IN
    /\ heapSteps < MaxHeapSteps
    /\ heap' = c.heap
    /\ held' = held \cup {[from |-> "platformUris", ref |-> c.ref]}
    /\ UNCHANGED self
    /\ Stepped("platformUris", "none")

\* node.metadata: the public field, the object the constructor stored.
HeapGetMetadata ==
    /\ heapSteps < MaxHeapSteps
    /\ held' = held \cup {[from |-> "metadata", ref |-> self.metadata]}
    /\ UNCHANGED <<heap, self>>
    /\ Stepped("metadata", "none")

HeapAddPlatformUri ==
    \E platformUri \in HeapUris :
        /\ heapSteps < MaxHeapSteps
        /\ heap' = addPlatformUriAt(heap, self, platformUri)
        /\ UNCHANGED <<self, held>>
        /\ Stepped("addPlatformUri", "none")

HeapAddPlay ==
    \E msPlayed \in HeapPlays :
        /\ heapSteps < MaxHeapSteps
        /\ self' = addPlay(self, msPlayed).node
        /\ UNCHANGED <<heap, held>>
        /\ Stepped("addPlay", "none")

\* The caller assigns to a property of a metadata object it holds.
WriteMetadataObject ==
    \E c \in held, property \in {"artist", "title", "album"} :
        /\ heapSteps < MaxHeapSteps
        /\ c.from \in {"ctorArg", "metadata"}
        /\ heap' = [heap EXCEPT ![c.ref][property] = Str(<<"x">>)]
        /\ UNCHANGED <<self, held>>
        /\ Stepped("write", c.from)

\* The caller assigns to a coordinate of a position object it holds.
WritePositionObject ==
    \E c \in held, property \in {"x", "y", "z"} :
        /\ heapSteps < MaxHeapSteps
        /\ c.from \in {"setPositionArg", "position"}
        /\ heap' = [heap EXCEPT ![c.ref][property] = Num(999)]
        /\ UNCHANGED <<self, held>>
        /\ Stepped("write", c.from)

\* The caller pushes onto an array it was handed.
WriteArray ==
    \E c \in held :
        /\ heapSteps < MaxHeapSteps
        /\ c.from = "platformUris"
        /\ heap' = [heap EXCEPT ![c.ref].items = Append(@, Str(<<"z">>))]
        /\ UNCHANGED <<self, held>>
        /\ Stepped("write", c.from)

NextHeap ==
    \/ HeapSetPositionNew
    \/ HeapSetPositionHeld
    \/ HeapGetPosition
    \/ HeapGetPlatformUris
    \/ HeapGetMetadata
    \/ HeapAddPlatformUri
    \/ HeapAddPlay
    \/ WriteMetadataObject
    \/ WritePositionObject
    \/ WriteArray

SpecHeap == InitHeap /\ [][NextHeap]_vars

----------------------------------------------------------------------------
\* TrackIdentifier (track-identifier.ts): the canonical identity of a track.

UpperCase ==
    <<"A", "B", "C", "D", "E", "F", "G", "H", "I", "J", "K", "L", "M",
      "N", "O", "P", "Q", "R", "S", "T", "U", "V", "W", "X", "Y", "Z">>

LowerCase ==
    <<"a", "b", "c", "d", "e", "f", "g", "h", "i", "j", "k", "l", "m",
      "n", "o", "p", "q", "r", "s", "t", "u", "v", "w", "x", "y", "z">>

\* Faulty variant: the case is kept.
ToLowerCase_KeepsCase(s) == s

\* s.toLowerCase()
ToLowerCase(s) ==
    [i \in 1..Len(s) |->
        IF \E k \in 1..26 : UpperCase[k] = s[i]
        THEN LowerCase[CHOOSE k \in 1..26 : UpperCase[k] = s[i]]
        ELSE s[i]]

\* The characters /[^a-z0-9\s]/ does not match
Kept == Range(LowerCase) \cup Range(DecimalDigits) \cup WhiteSpace

\* Faulty variant: the colon is on the allow-list.
ReplaceSpecial_KeepsColon(s) ==
    [i \in 1..Len(s) |-> IF s[i] \in Kept \cup {":"} THEN s[i] ELSE " "]

\* s.replace(/[^a-z0-9\s]/g, ' ')
ReplaceSpecial(s) == [i \in 1..Len(s) |-> IF s[i] \in Kept THEN s[i] ELSE " "]

\* Faulty variant: the runs of white space are left as they are.
CollapseWhiteSpace_KeepsRuns(s) == s

\* s.replace(/\s+/g, ' ')
RECURSIVE CollapseWhiteSpace(_)
CollapseWhiteSpace(s) ==
    IF s = <<>> THEN <<>>
    ELSE IF s[1] \in WhiteSpace THEN <<" ">> \o CollapseWhiteSpace(TrimStart(s))
    ELSE <<s[1]>> \o CollapseWhiteSpace(Tail(s))

\* Faulty variant: the string is trimmed first, not last.
normalizeString_TrimsFirst(str) ==
    IF ~Truthy(str) THEN Str(<<>>)
    ELSE Str(CollapseWhiteSpace(ReplaceSpecial(ToLowerCase(Trim(str.str)))))

\* TrackIdentifier.normalizeString(str)
normalizeString(str) ==
    IF ~Truthy(str) THEN Str(<<>>)
    ELSE Str(Trim(CollapseWhiteSpace(ReplaceSpecial(ToLowerCase(str.str)))))

Delimiter == <<":", ":">>

\* TrackIdentifier.generateTrackId(metadata)
generateTrackId(metadata) ==
    LET artist == normalizeString(metadata.artist)
        title == normalizeString(metadata.title)
        album == normalizeString(Or(metadata.album, Str(<<>>)))
    IN Str(artist.str \o Delimiter \o title.str \o Delimiter \o album.str)

\* s.split('::'): the pieces between the occurrences of the delimiter, found
\* from the left
RECURSIVE Split(_)
Split(s) ==
    LET at == {i \in 1..(Len(s) - 1) : SubSeq(s, i, i + 1) = Delimiter} IN
    IF at = {} THEN <<s>>
    ELSE LET i == CHOOSE i \in at : \A j \in at : i <= j IN
         <<SubSeq(s, 1, i - 1)>> \o Split(SubSeq(s, i + 2, Len(s)))

\* parts[i], undefined beyond the end of the array
At(parts, i) == IF i <= Len(parts) THEN Str(parts[i]) ELSE Undefined

\* s.split(':')
RECURSIVE SplitAtColon(_)
SplitAtColon(s) ==
    LET at == {i \in 1..Len(s) : s[i] = ":"} IN
    IF at = {} THEN <<s>>
    ELSE LET i == CHOOSE i \in at : \A j \in at : i <= j IN
         <<SubSeq(s, 1, i - 1)>> \o SplitAtColon(SubSeq(s, i + 1, Len(s)))

\* Faulty variant: the identity is split at every colon.
parseTrackId_SplitsAtColon(trackId) ==
    LET parts == SplitAtColon(trackId.str)
    IN [tag |-> "object",
        artist |-> Or(At(parts, 1), Str(<<>>)),
        title |-> Or(At(parts, 2), Str(<<>>)),
        album |-> Or(At(parts, 3), Str(<<>>))]

\* parts.slice(i).join('::')
RECURSIVE JoinFrom(_, _)
JoinFrom(parts, i) ==
    IF i > Len(parts) THEN <<>>
    ELSE IF i = Len(parts) THEN parts[i]
    ELSE parts[i] \o Delimiter \o JoinFrom(parts, i + 1)

\* Faulty variant: the segments after the second delimiter are joined again
\* into the album.
parseTrackId_RejoinsAlbum(trackId) ==
    LET parts == Split(trackId.str) IN
    [tag |-> "object",
     artist |-> Or(At(parts, 1), Str(<<>>)),
     title |-> Or(At(parts, 2), Str(<<>>)),
     album |-> Str(JoinFrom(parts, 3))]

\* TrackIdentifier.parseTrackId(trackId)
parseTrackId(trackId) ==
    LET parts == Split(trackId.str) IN
    [tag |-> "object",
     artist |-> Or(At(parts, 1), Str(<<>>)),
     title |-> Or(At(parts, 2), Str(<<>>)),
     album |-> Or(At(parts, 3), Str(<<>>))]

\* Faulty variant: an album of null is let through, as an absent one is.
isValidMetadata_AlbumNullLetThrough(metadata) ==
    /\ TypeOf(metadata) = "object"
    /\ metadata # Null
    /\ TypeOf(metadata.artist) = "string"
    /\ TypeOf(metadata.title) = "string"
    /\ (metadata.album \in {Undefined, Null} \/ TypeOf(metadata.album) = "string")

\* TrackIdentifier.isValidMetadata(metadata); a property an object does not
\* have reads as undefined
isValidMetadata(metadata) ==
    /\ TypeOf(metadata) = "object"
    /\ metadata # Null
    /\ TypeOf(metadata.artist) = "string"
    /\ TypeOf(metadata.title) = "string"
    /\ (metadata.album = Undefined \/ TypeOf(metadata.album) = "string")

\* TrackIdentifier.safeGenerateTrackId(metadata)
safeGenerateTrackId(metadata) ==
    IF ~isValidMetadata(metadata) THEN Null ELSE generateTrackId(metadata)

\* No TrackNode is followed.
NodeIdle ==
    /\ node = FreshNode.node
    /\ prev = FreshNode.node
    /\ thrown = "none"
    /\ lastCall = [op |-> "idle", arg |-> Undefined, ret |-> Undefined]
    /\ nCalls = 0
    /\ played = <<>>
    /\ uriCalls = 0

----------------------------------------------------------------------------
\* The normalizer: every string of up to MaxStrLen characters, and the two
\* absent values, is normalized, and the result normalized again; an identity
\* is generated from metadata whose fields are the string, empty or absent.

\* A lower-case letter, an upper-case letter, a digit, a space, a tab, the
\* character of the delimiter and a character of \w that is no letter or digit
NormAlphabet == {"a", "B", "1", " ", "\t", ":", "_"}

NormInputs ==
    {Null, Undefined} \cup
    {Str(s) : s \in UNION {[1..k -> NormAlphabet] : k \in 0..MaxStrLen}}

InitNormalize ==
    /\ normIn \in NormInputs
    /\ normOut = <<>>
    /\ given = Undefined
    /\ respelled = Undefined
    /\ respellings = 0
    /\ identity = Undefined
    /\ identityAlt = Undefined
    /\ parsedId = Undefined
    /\ NodeIdle
    /\ FoldIdle
    /\ HeapIdle
    /\ PipeIdle

\* normalizeString is applied, to normIn first and to its own result next.
Normalize ==
    /\ Len(normOut) < 2
    /\ normOut' = Append(normOut,
                         normalizeString(IF normOut = <<>> THEN normIn
                                         ELSE normOut[Len(normOut)]))
    /\ UNCHANGED <<normIn, given, respelled, respellings, identity, identityAlt, parsedId>>
    /\ UNCHANGED <<nodeVars, foldVars, heapVars, pipeVars>>

\* generateTrackId is applied to metadata made of normIn.
NormGenerate ==
    \E title \in {normIn, Str(<<>>)}, album \in {normIn, Str(<<>>), Undefined} :
        /\ normIn \notin {Null, Undefined}
        /\ given = Undefined
        /\ given' = [tag |-> "object", artist |-> normIn, title |-> title, album |-> album]
        /\ identity' = generateTrackId(given')
        /\ UNCHANGED <<normIn, normOut, respelled, respellings, identityAlt, parsedId>>
        /\ UNCHANGED <<nodeVars, foldVars, heapVars, pipeVars>>

NextNormalize == Normalize \/ NormGenerate

SpecNormalize == InitNormalize /\ [][NextNormalize]_vars

----------------------------------------------------------------------------
\* The identity: metadata is given, may be spelled another way by up to
\* MaxRespellings changes of one character each (the case of a letter, a
\* punctuation character, the length of a run of white space), and the
\* identities of both spellings are generated; the identity of the given
\* metadata is parsed back. The changes of one run are made to one field.

IdArtists ==
    {Str(<<>>), Str(<<"a">>), Str(<<"A", "b">>), Str(<<"A", "/", "b">>),
     Str(<<"a", ":", ":", "b">>), Str(<<" ", "a", " ", " ", "1", "\t">>),
     Str(<<":", ":">>)}

IdTitles == {Str(<<>>), Str(<<"a">>), Str(<<"b", ":", ":", "a">>), Str(<<"B", "-", "a", "!">>)}

IdAlbums == {Undefined, Str(<<>>), Str(<<"a", " ", "(", "1", ")">>)}

IdMetadata ==
    {[tag |-> "object", artist |-> artist, title |-> title, album |-> album] :
        artist \in IdArtists, title \in IdTitles, album \in IdAlbums}

Fields == {"artist", "title", "album"}

\* The punctuation a respelling adds
AddedPunctuation == {"/"}

IsLetterOrDigit(c) == c \in Range(LowerCase) \cup Range(UpperCase) \cup Range(DecimalDigits)

IsPunctuation(c) == ~IsLetterOrDigit(c) /\ c \notin WhiteSpace

InsertAt(s, i, c) == SubSeq(s, 1, i) \o <<c>> \o SubSeq(s, i + 1, Len(s))

RemoveAt(s, i) == SubSeq(s, 1, i - 1) \o SubSeq(s, i + 1, Len(s))

\* The letter c in the other case
OtherCase(c) ==
    IF \E k \in 1..26 : UpperCase[k] = c
    THEN LowerCase[CHOOSE k \in 1..26 : UpperCase[k] = c]
    ELSE UpperCase[CHOOSE k \in 1..26 : LowerCase[k] = c]

InitIdentity ==
    /\ given \in IdMetadata
    /\ respelled = given
    /\ respellings = 0
    /\ identity = Undefined
    /\ identityAlt = Undefined
    /\ parsedId = Undefined
    /\ normIn = Undefined
    /\ normOut = <<>>
    /\ NodeIdle
    /\ FoldIdle
    /\ HeapIdle
    /\ PipeIdle

\* The field now reads s; the changes of a run are made to one field.
Respelt(field, s) ==
    /\ respellings < MaxRespellings
    /\ identity = Undefined
    /\ \A other \in Fields \ {field} : respelled[other] = given[other]
    /\ respelled' = [respelled EXCEPT ![field] = Str(s)]
    /\ respellings' = respellings + 1
    /\ UNCHANGED <<given, identity, identityAlt, parsedId, normIn, normOut>>
    /\ UNCHANGED <<nodeVars, foldVars, heapVars, pipeVars>>

\* A letter is written in the other case.
RespellCase ==
    \E field \in Fields :
        /\ respelled[field].tag = "string"
        /\ \E i \in 1..Len(respelled[field].str) :
              LET s == respelled[field].str IN
              /\ s[i] \in Range(LowerCase) \cup Range(UpperCase)
              /\ Respelt(field, [s EXCEPT ![i] = OtherCase(s[i])])

\* A punctuation character is added.
RespellAddPunctuation ==
    \E field \in Fields, c \in AddedPunctuation :
        /\ respelled[field].tag = "string"
        /\ \E i \in 0..Len(respelled[field].str) :
              Respelt(field, InsertAt(respelled[field].str, i, c))

\* A punctuation character is dropped.
RespellDropPunctuation ==
    \E field \in Fields :
        /\ respelled[field].tag = "string"
        /\ \E i \in 1..Len(respelled[field].str) :
              LET s == respelled[field].str IN
              /\ IsPunctuation(s[i])
              /\ Respelt(field, RemoveAt(s, i))

\* A punctuation character is written as another.
RespellSwapPunctuation ==
    \E field \in Fields, c \in AddedPunctuation :
        /\ respelled[field].tag = "string"
        /\ \E i \in 1..Len(respelled[field].str) :
              LET s == respelled[field].str IN
              /\ IsPunctuation(s[i])
              /\ s[i] # c
              /\ Respelt(field, [s EXCEPT ![i] = c])

\* A run of white space is made one character longer.
RespellLengthenWhiteSpace ==
    \E field \in Fields, c \in {" "} :
        /\ respelled[field].tag = "string"
        /\ \E i \in 1..Len(respelled[field].str) :
              LET s == respelled[field].str IN
              /\ s[i] \in WhiteSpace
              /\ Respelt(field, InsertAt(s, i, c))

\* A run of white space is made one character shorter.
RespellShortenWhiteSpace ==
    \E field \in Fields :
        /\ respelled[field].tag = "string"
        /\ \E i \in 1..(Len(respelled[field].str) - 1) :
              LET s == respelled[field].str IN
              /\ s[i] \in WhiteSpace
              /\ s[i + 1] \in WhiteSpace
              /\ Respelt(field, RemoveAt(s, i))

\* generateTrackId is applied to both spellings.
Generate ==
    /\ given # Undefined
    /\ normIn = Undefined
    /\ identity = Undefined
    /\ identity' = generateTrackId(given)
    /\ identityAlt' = generateTrackId(respelled)
    /\ UNCHANGED <<given, respelled, respellings, parsedId, normIn, normOut>>
    /\ UNCHANGED <<nodeVars, foldVars, heapVars, pipeVars>>

\* parseTrackId is applied to the identity generated.
Parse ==
    /\ normIn = Undefined
    /\ identity # Undefined
    /\ parsedId = Undefined
    /\ parsedId' = parseTrackId(identity)
    /\ UNCHANGED <<given, respelled, respellings, identity, identityAlt, normIn, normOut>>
    /\ UNCHANGED <<nodeVars, foldVars, heapVars, pipeVars>>

NextIdentity ==
    \/ RespellCase
    \/ RespellAddPunctuation
    \/ RespellDropPunctuation
    \/ RespellSwapPunctuation
    \/ RespellLengthenWhiteSpace
    \/ RespellShortenWhiteSpace
    \/ Generate
    \/ Parse

SpecIdentity == InitIdentity /\ [][NextIdentity]_vars

----------------------------------------------------------------------------
\* The parser alone: parseTrackId is given every string of up to MaxIdLen
\* characters, identities that generateTrackId never produces included.

ParseAlphabet == {"a", "b", ":"}

ParseInputs == {Str(s) : s \in UNION {[1..k -> ParseAlphabet] : k \in 0..MaxIdLen}}

InitParse ==
    /\ identity \in ParseInputs
    /\ parsedId = Undefined
    /\ given = Undefined
    /\ respelled = Undefined
    /\ respellings = 0
    /\ identityAlt = Undefined
    /\ normIn = Undefined
    /\ normOut = <<>>
    /\ NodeIdle
    /\ FoldIdle
    /\ HeapIdle
    /\ PipeIdle

NextParse == Parse

SpecParse == InitParse /\ [][NextParse]_vars

----------------------------------------------------------------------------
\* The guarded generator: safeGenerateTrackId is given values of every kind.

\* What a property of a candidate object may hold: a string, the empty
\* string, nothing, null, a number
SafeFields == {Str(<<"a">>), Str(<<>>), Undefined, Null, Num(1)}

SafeArgs ==
    {[tag |-> "object", artist |-> artist, title |-> title, album |-> album] :
        artist \in SafeFields, title \in SafeFields, album \in SafeFields}
    \cup {Null, Undefined, Num(123), NaN, Str(<<"a">>), Str(<<>>)}

InitSafe ==
    /\ given \in SafeArgs
    /\ identity = Undefined
    /\ respelled = Undefined
    /\ respellings = 0
    /\ identityAlt = Undefined
    /\ parsedId = Undefined
    /\ normIn = Undefined
    /\ normOut = <<>>
    /\ NodeIdle
    /\ FoldIdle
    /\ HeapIdle
    /\ PipeIdle

\* safeGenerateTrackId is applied to the value given.
SafeGenerate ==
    /\ identity = Undefined
    /\ identity' = safeGenerateTrackId(given)
    /\ UNCHANGED <<given, respelled, respellings, identityAlt, parsedId, normIn, normOut>>
    /\ UNCHANGED <<nodeVars, foldVars, heapVars, pipeVars>>

NextSafe == SafeGenerate

SpecSafe == InitSafe /\ [][NextSafe]_vars

----------------------------------------------------------------------------
\* SpotifyStreamingHistoryProcessor (spotify-processor.ts):
\* processStreamingHistoryFile reads the history file, parses it and keeps the
\* entries of tracks; convertToTrackPlays turns entries into plays.

\* value[name]: a property an object does not have, and any property of a
\* number or a string, reads as undefined
Prop(value, name) ==
    IF value.tag = "object" /\ name \in DOMAIN value THEN value[name] ELSE Undefined

TrackScheme == <<"s", "p", "o", "t", "i", "f", "y", ":", "t", "r", "a", "c", "k", ":">>

\* s.startsWith(prefix)
StartsWith(s, prefix) == Len(s) >= Len(prefix) /\ SubSeq(s, 1, Len(prefix)) = prefix

\* Faulty variant: any reference that is not empty is kept.
FilterTest_AnyReference(entry) ==
    IF entry.tag \in {"null", "undefined"} THEN "throw"
    ELSE LET uri == Prop(entry, "spotify_track_uri") IN
         IF ~Truthy(uri) THEN "drop"
         ELSE IF TypeOf(uri) # "string" THEN "throw"
         ELSE "keep"

\* The callback of filter on one entry: the entry is kept, dropped, or the
\* callback throws a TypeError (a property read on null, or startsWith called
\* on a value that is not a string)
FilterTest(entry) ==
    IF entry.tag \in {"null", "undefined"} THEN "throw"
    ELSE LET uri == Prop(entry, "spotify_track_uri") IN
         IF ~Truthy(uri) THEN "drop"
         ELSE IF TypeOf(uri) # "string" THEN "throw"
         ELSE IF StartsWith(uri.str, TrackScheme) THEN "keep"
         ELSE "drop"

\* rawEntries.filter(...): the callback runs on the entries in order, and the
\* first throw ends the call
RECURSIVE Filter(_)
Filter(entries) ==
    IF entries = <<>> THEN [state |-> "fulfilled", items |-> <<>>, error |-> "none"]
    ELSE LET test == FilterTest(Head(entries)) IN
         IF test = "throw" THEN [state |-> "rejected", items |-> <<>>, error |-> "TypeError"]
         ELSE LET rest == Filter(Tail(entries)) IN
              IF rest.state # "fulfilled" THEN rest
              ELSE [rest EXCEPT !.items =
                        (IF test = "keep" THEN <<Head(entries)>> ELSE <<>>) \o @]

\* What the promise of processor.processStreamingHistoryFile(filePath) settles
\* with, f being what is at filePath: the read rejects when there is no file,
\* JSON.parse throws a SyntaxError on a content that is no JSON, and
\* rawEntries.filter is a TypeError when the value parsed is no array
processStreamingHistoryFile(f) ==
    IF ~f.exists THEN [state |-> "rejected", items |-> <<>>, error |-> "NotFound"]
    ELSE IF ~f.parses THEN [state |-> "rejected", items |-> <<>>, error |-> "SyntaxError"]
    ELSE IF f.value.tag # "array"
         THEN [state |-> "rejected", items |-> <<>>, error |-> "TypeError"]
    ELSE Filter(f.value.items)

\* The days from 1970-01-01 to the day d of the month m of the year y; a day
\* the month does not have counts on into the next month
DaysFromCivil(y, m, d) ==
    LET yy == IF m <= 2 THEN y - 1 ELSE y
        era == yy \div 400
        yoe == yy - era * 400
        mp == IF m > 2 THEN m - 3 ELSE m + 9
        doy == (153 * mp + 2) \div 5 + d - 1
        doe == yoe * 365 + yoe \div 4 - yoe \div 100 + doy
    IN era * 146097 + doe - 719468

\* The parts of a date string as the Date constructor reads them. The forms
\* read are YYYY-MM-DD ("date"), and YYYY-MM-DD, one of T, t and a space,
\* HH:MM:SS, and then: nothing ("local"); after T or t, a fraction of a
\* second (a point and digits) and nothing ("local"), Z or z ("utc") or an
\* offset +HH:MM or -HH:MM ("offset"). Any other string has the form "none".
\* valid says that the parts name a moment: a month 01..12, a day 01..31, a
\* time up to 23:59:59 or 24:00:00 exactly (a fraction all of zeros), an
\* offset up to 23:59.
\* A string with a space before the time, and a string YYYY-MM-DD whose month
\* is not 01..12 or whose day is not 01..31, is read by the older rules of
\* the runtime: the three numbers are month, day and year when the first is
\* 1..31, and year, month and day otherwise; a year 0..49 is a year
\* 2000..2049 and a year 50..99 a year 1950..1999; and the time is local, so
\* that such a YYYY-MM-DD has the form "local".
\* Of a fraction the runtime keeps the digits from the first that is not 0,
\* nine at most, and cuts that number down to three digits by the length of
\* the fraction.
DateTimeParts(s) ==
    LET n == Len(s)
        digits(i, j) == IsDigits(SubSeq(s, i, j))
        number(i, j) == DecimalValue(SubSeq(s, i, j))
        isDate ==
            /\ n >= 10
            /\ digits(1, 4) /\ s[5] = "-" /\ digits(6, 7) /\ s[8] = "-" /\ digits(9, 10)
        isTime ==
            /\ n >= 19
            /\ s[11] \in {"T", "t", " "}
            /\ digits(12, 13) /\ s[14] = ":" /\ digits(15, 16) /\ s[17] = ":"
            /\ digits(18, 19)
        fractionLen ==
            IF n >= 21 /\ s[20] = "."
            THEN CHOOSE k \in 0..(n - 20) :
                    /\ \A i \in 21..(20 + k) : s[i] \in Range(DecimalDigits)
                    /\ k = n - 20 \/ s[21 + k] \notin Range(DecimalDigits)
            ELSE 0
        zone == SubSeq(s, IF fractionLen > 0 THEN 21 + fractionLen ELSE 20, n)
        isOffset ==
            /\ Len(zone) = 6
            /\ zone[1] \in {"+", "-"}
            /\ IsDigits(SubSeq(zone, 2, 3)) /\ zone[4] = ":" /\ IsDigits(SubSeq(zone, 5, 6))
        form ==
            CASE ~isDate -> "none"
              [] n = 10 -> "date"
              [] ~isTime -> "none"
              [] s[11] = " " -> IF n = 19 THEN "local" ELSE "none"
              [] n >= 20 /\ s[20] = "." /\ fractionLen = 0 -> "none"
              [] zone = <<>> -> "local"
              [] zone \in {<<"Z">>, <<"z">>} -> "utc"
              [] isOffset -> "offset"
              [] OTHER -> "none"
        timed == form \in {"local", "utc", "offset"}
        hour == IF timed THEN number(12, 13) ELSE 0
        minute == IF timed THEN number(15, 16) ELSE 0
        second == IF timed THEN number(18, 19) ELSE 0
        legacy ==
            \/ timed /\ s[11] = " "
            \/ form = "date" /\ ~(number(6, 7) \in 1..12 /\ number(9, 10) \in 1..31)
        monthFirst == legacy /\ number(1, 4) \in 1..31
        yearRead == IF monthFirst THEN number(9, 10) ELSE number(1, 4)
        year ==
            IF legacy /\ yearRead <= 49 THEN 2000 + yearRead
            ELSE IF legacy /\ yearRead <= 99 THEN 1900 + yearRead
            ELSE yearRead
        month == IF monthFirst THEN number(1, 4) ELSE number(6, 7)
        day == IF monthFirst THEN number(6, 7) ELSE number(9, 10)
        \* the digits of the fraction from the first that is not 0, nine at most
        zeros ==
            CHOOSE k \in 0..fractionLen :
                /\ \A i \in 21..(20 + k) : s[i] = "0"
                /\ k = fractionLen \/ s[21 + k] # "0"
        significant ==
            DecimalValue(SubSeq(s, 21 + zeros,
                                IF fractionLen - zeros > 9 THEN 29 + zeros
                                ELSE 20 + fractionLen))
        ms == CASE fractionLen = 0 -> 0
                [] fractionLen = 1 -> significant * 100
                [] fractionLen = 2 -> significant * 10
                [] fractionLen = 3 -> significant
                [] fractionLen \in 4..9 -> significant \div 10^(fractionLen - 3)
                [] OTHER -> significant \div 10^6
        offsetHour == IF form = "offset" THEN DecimalValue(SubSeq(zone, 2, 3)) ELSE 0
        offsetMinute == IF form = "offset" THEN DecimalValue(SubSeq(zone, 5, 6)) ELSE 0
    IN IF form = "none" THEN [form |-> "none"]
       ELSE [form |-> IF form = "date" /\ legacy THEN "local" ELSE form,
             valid |->
                 /\ month \in 1..12
                 /\ day \in 1..31
                 /\ \/ hour <= 23 /\ minute <= 59 /\ second <= 59
                    \/ /\ hour = 24 /\ minute = 0 /\ second = 0
                       /\ \A i \in 21..(20 + fractionLen) : s[i] = "0"
                 /\ offsetHour <= 23 /\ offsetMinute <= 59,
             days |-> DaysFromCivil(year, month, day),
             msOfDay |-> ((hour * 60 + minute) * 60 + second) * 1000 + ms,
             offset |-> (IF form = "offset" /\ zone[1] = "-" THEN 0 - 1 ELSE 1)
                            * (offsetHour * 60 + offsetMinute)]

\* new Date(ts).getTime(), for ts a number, null, undefined, an object, a
\* string of one of the forms of DateTimeParts, or a string with no digit in
\* it (no date: NaN). Strings of other kinds are read by rules of the runtime
\* that are not followed here. A time with no zone is a local time. The
\* moments of the inputs lie in January 1970, where the count of milliseconds
\* stays below 2^31.
DateGetTime(ts) ==
    CASE ts.tag = "string" ->
             LET parts == DateTimeParts(ts.str) IN
             (CASE parts.form # "none" ->
                       IF ~parts.valid THEN NaN
                       ELSE Num(parts.days * 86400000 + parts.msOfDay
                                - 60000 * (CASE parts.form = "local" -> timeZone
                                             [] parts.form = "offset" -> parts.offset
                                             [] OTHER -> 0))
                [] \A i \in 1..Len(ts.str) : ts.str[i] \notin Range(DecimalDigits) -> NaN)
      [] ts.tag = "finite" -> ts
      [] ts.tag = "null" -> Num(0)
      [] OTHER -> NaN

\* Faulty variant: a missing name is given the label of the TrackNode.
EntryMetadata_Labelled(entry) ==
    [tag |-> "object",
     title |-> Or(Prop(entry, "master_metadata_track_name"), UnknownTitle),
     artist |-> Or(Prop(entry, "master_metadata_album_artist_name"), UnknownArtist),
     album |-> Or(Prop(entry, "master_metadata_album_album_name"), Str(<<>>))]

\* The metadata object convertToTrackPlays builds from an entry
EntryMetadata(entry) ==
    [tag |-> "object",
     title |-> Or(Prop(entry, "master_metadata_track_name"), Str(<<>>)),
     artist |-> Or(Prop(entry, "master_metadata_album_artist_name"), Str(<<>>)),
     album |-> Or(Prop(entry, "master_metadata_album_album_name"), Str(<<>>))]

\* The TrackPlay convertToTrackPlays builds from an entry
TrackPlay(entry) ==
    [timestamp |-> DateGetTime(Prop(entry, "ts")),
     universalId |-> generateTrackId(EntryMetadata(entry)),
     metadata |-> EntryMetadata(entry),
     platformUri |-> Prop(entry, "spotify_track_uri"),
     msPlayed |-> Or(Prop(entry, "ms_played"), Num(0))]

\* processor.convertToTrackPlays(entries): entries.map(...)
convertToTrackPlays(entries) ==
    [state |-> "returned", items |-> [i \in 1..Len(entries) |-> TrackPlay(entries[i])]]

\* A raw entry
Entry(ts, ms, track, artist, album, uri) ==
    [tag |-> "object",
     ts |-> ts,
     ms_played |-> ms,
     master_metadata_track_name |-> track,
     master_metadata_album_artist_name |-> artist,
     master_metadata_album_album_name |-> album,
     spotify_track_uri |-> uri]

\* The elements of the files. Entries of tracks: all fields present; the time
\* in the form the interface documents, names and duration null; names,
\* duration and time missing; names empty, a skip, the time 24:00:00; a
\* negative duration and a time that is no date; a reference that is the
\* scheme and nothing more, the time with a fraction and an offset. Entries
\* that are no tracks: an episode, an empty, null or missing reference, the
\* scheme cut short, the scheme after a space. Elements that are no entries:
\* null, a number, a string, and records whose reference is a number.
RawEntries ==
    LET track == Str(<<"s", "p", "o", "t", "i", "f", "y", ":", "t", "r", "a", "c", "k", ":", "1">>)
        named(uri) ==
            Entry(Str(<<"1", "9", "7", "0", "-", "0", "1", "-", "0", "2", "T", "0", "0", ":", "0", "0", ":", "0", "1", "Z">>), Num(1000), Str(<<"t">>), Str(<<"a">>), Str(<<"l">>), uri)
    IN {Entry(Str(<<"1", "9", "7", "0", "-", "0", "1", "-", "0", "2", "T", "0", "0", ":", "0", "0", ":", "0", "1", "Z">>), Num(1000), Str(<<"t">>), Str(<<"A", "/", "b">>), Str(<<"l">>), track),
        Entry(Str(<<"1", "9", "7", "0", "-", "0", "1", "-", "2", "0", " ", "1", "2", ":", "3", "0", ":", "4", "5">>), Null, Null, Null, Null, track),
        Entry(Undefined, Undefined, Undefined, Undefined, Undefined, track),
        Entry(Str(<<"1", "9", "7", "0", "-", "0", "1", "-", "0", "1", "T", "2", "4", ":", "0", "0", ":", "0", "0", "Z">>), Num(0), Str(<<>>), Str(<<>>), Str(<<>>), track),
        Entry(Str(<<"x">>), Num(0 - 5), Str(<<"t">>), Str(<<"a">>), Str(<<"l">>), track),
        Entry(Str(<<"1", "9", "7", "0", "-", "0", "1", "-", "0", "3", "t", "0", "0", ":", "0", "0", ":", "0", "1", ".", "5", "+", "0", "1", ":", "0", "0">>), Num(1000), Str(<<"t">>), Str(<<"a">>), Str(<<"l">>), Str(TrackScheme)),
        named(Str(<<"s", "p", "o", "t", "i", "f", "y", ":", "e", "p", "i", "s", "o", "d", "e", ":", "1">>)),
        named(Str(<<>>)),
        named(Null),
        named(Undefined),
        named(Str(<<"s", "p", "o", "t", "i", "f", "y", ":", "t", "r", "a", "c", "k">>)),
        named(Str(<<" ", "s", "p", "o", "t", "i", "f", "y", ":", "t", "r", "a", "c", "k", ":", "1">>)),
        Null, Num(5), Str(<<"x">>), named(Num(123)), named(Num(0))}

\* What may be at filePath: nothing, a content that is no JSON, the JSON of a
\* value that is no array, the JSON of an array
Files ==
    {[exists |-> FALSE, parses |-> FALSE, value |-> Undefined],
     [exists |-> TRUE, parses |-> FALSE, value |-> Undefined]}
    \cup {[exists |-> TRUE, parses |-> TRUE, value |-> v] :
             v \in {Null, Num(5), Str(<<"x">>), EmptyObject}}
    \cup {[exists |-> TRUE, parses |-> TRUE, value |-> [tag |-> "array", items |-> entries]] :
             entries \in UNION {[1..n -> RawEntries] : n \in 0..MaxEntries}}

\* Local times: UTC, an hour east of it, five hours west of it
TimeZones == {0, 60, 0 - 300}

InitPipeline ==
    /\ file \in Files
    /\ timeZone \in TimeZones
    /\ source = Undefined
    /\ loaded = [state |-> "uncalled", items |-> <<>>, error |-> "none"]
    /\ trackPlays = [state |-> "uncalled", items |-> <<>>]
    /\ otherTasks = 0
    /\ NodeIdle
    /\ FoldIdle
    /\ HeapIdle
    /\ IdentIdle

\* processStreamingHistoryFile is called: it starts the read of the file and,
\* at its await, hands a pending promise to the caller.
Load ==
    /\ loaded.state = "uncalled"
    /\ loaded' = [loaded EXCEPT !.state = "pending"]
    /\ UNCHANGED <<file, timeZone, source, trackPlays, otherTasks>>
    /\ UNCHANGED <<nodeVars, foldVars, heapVars, identVars>>

\* A task of the caller runs while the promise is pending.
OtherTask ==
    /\ loaded.state = "pending"
    /\ otherTasks < MaxOtherTasks
    /\ otherTasks' = otherTasks + 1
    /\ UNCHANGED <<file, timeZone, source, loaded, trackPlays>>
    /\ UNCHANGED <<nodeVars, foldVars, heapVars, identVars>>

\* The read has ended and processStreamingHistoryFile runs on from its await
\* to its end: the promise is settled.
Resume ==
    /\ loaded.state = "pending"
    /\ source' = IF file.exists /\ file.parses THEN file.value ELSE source
    /\ loaded' = processStreamingHistoryFile(file)
    /\ UNCHANGED <<file, timeZone, trackPlays, otherTasks>>
    /\ UNCHANGED <<nodeVars, foldVars, heapVars, identVars>>

\* convertToTrackPlays is called on the entries the load returned.
Convert ==
    /\ loaded.state = "fulfilled"
    /\ trackPlays.state = "uncalled"
    /\ trackPlays' = convertToTrackPlays(loaded.items)
    /\ UNCHANGED <<file, timeZone, source, loaded, otherTasks>>
    /\ UNCHANGED <<nodeVars, foldVars, heapVars, identVars>>

NextPipeline == Load \/ OtherTask \/ Resume \/ Convert

SpecPipeline == InitPipeline /\ [][NextPipeline]_vars

\* Both TrackNodes have received all their calls.
FoldDone == doneA = Len(callsA) /\ doneB = Len(callsB)

----------------------------------------------------------------------------
(* What the specification says of the TrackNode, stated over the history   *)
(* variables: lastCall is the call just made, prev the TrackNode before it *)
(* and node the TrackNode after it.                                        *)

\* v is a finite number below 2^53 and strictly greater than 0
FinitePositive(v) == v.tag = "finite" /\ v.num > 0

\* v is a finite number below 2^53 in absolute value
Finite(v) == v.tag = "finite"

\* v is a string with at least one character that is not whitespace
NonBlankString(v) ==
    v.tag = "string" /\ \E i \in 1..Len(v.str) : v.str[i] \notin WhiteSpace

\* a <= b, for a and b numbers
NumLeq(a, b) ==
    CASE a.tag = "NaN" \/ b.tag = "NaN" -> FALSE
      [] a.tag = "-Infinity" \/ b.tag = "Infinity" -> TRUE
      [] a.tag = "finite" /\ b.tag = "finite" -> a.num <= b.num
      [] a.tag = "finite" /\ b.tag = "large" -> TRUE
      [] a.tag = "large" /\ b.tag = "large" ->
             a.high < b.high \/ (a.high = b.high /\ a.num <= b.num)
      [] OTHER -> FALSE

NoDuplicates(s) == \A i, j \in 1..Len(s) : s[i] = s[j] => i = j

\* C1: addPlay(v) is accepted if and only if v is a finite number strictly
\* greater than 0: then totalPlays grows by exactly 1 and totalPlayTime by
\* exactly v; for every other v, +Infinity included, both are left as they were.
C1_AddPlayAcceptsFinitePositiveOnly ==
    lastCall.op = "addPlay" =>
        IF FinitePositive(lastCall.arg)
        THEN /\ node.totalPlays = prev.totalPlays + 1
             /\ node.totalPlayTime = Plus(prev.totalPlayTime, lastCall.arg)
        ELSE /\ node.totalPlays = prev.totalPlays
             /\ node.totalPlayTime = prev.totalPlayTime

\* C2: addPlay called with zero, a negative number, NaN or a value that is
\* not a number raises no error and leaves totalPlays, totalPlayTime, the
\* URIs and the position exactly as they were.
C2_AddPlayIgnoresInvalid ==
    (/\ lastCall.op = "addPlay"
     /\ \/ lastCall.arg.tag = "finite" /\ lastCall.arg.num <= 0
        \/ lastCall.arg.tag \in {"-Infinity", "NaN"}
        \/ lastCall.arg.tag \in {"string", "undefined", "null", "object"})
    => /\ thrown = "none"
       /\ node.totalPlays = prev.totalPlays
       /\ node.totalPlayTime = prev.totalPlayTime
       /\ node.platformUris = prev.platformUris
       /\ node.position = prev.position

\* C2 happens: a string that reads as a number is passed to a TrackNode that
\* has a play.
C2_Witness ==
    /\ lastCall.op = "addPlay"
    /\ lastCall.arg = Str(<<"1", "8", "0", "0", "0", "0">>)
    /\ prev.totalPlays = 1
    /\ node.totalPlays = 1

\* C3: from one state to the next, whatever the call and its argument,
\* totalPlays and totalPlayTime never decrease.
C3_PlayCountersNeverDecrease ==
    [][/\ node'.totalPlays >= node.totalPlays
       /\ NumLeq(node.totalPlayTime, node'.totalPlayTime)]_vars

\* C3 happens: a second play has been added to the first.
C3_Witness ==
    /\ lastCall.op = "addPlay"
    /\ prev.totalPlays = 1
    /\ node.totalPlays = 2
    /\ prev.totalPlayTime = Num(59999)
    /\ node.totalPlayTime = Num(60000)

\* C4 as stated: two fresh TrackNodes that receive the same addPlay and
\* addPlatformUri calls, in any two orders, end with the same totalPlays, the
\* same totalPlayTime and the same set of platform URIs; and repeating any of
\* the addPlatformUri calls then changes nothing.
C4_FoldOrderIndependent ==
    FoldDone =>
        /\ foldA.totalPlays = foldB.totalPlays
        /\ foldA.totalPlayTime = foldB.totalPlayTime
        /\ Range(foldA.platformUris) = Range(foldB.platformUris)
        /\ \A i \in 1..Len(callsA) :
              callsA[i].op = "addPlatformUri" => Apply(foldA, callsA[i]) = foldA

\* The durations among the calls that addPlay adds to the total and that are
\* not Infinity
FiniteDurations(calls) ==
    SelectSeq(calls, LAMBDA c : /\ c.op = "addPlay"
                                /\ c.arg.tag \in {"finite", "large"}
                                /\ GreaterThanZero(c.arg))

\* The multiples of 2^53 in the exact sum of durations, and the rest of it
RECURSIVE SumOfHigh(_)
SumOfHigh(calls) ==
    IF calls = <<>> THEN 0
    ELSE (IF Head(calls).arg.tag = "large" THEN Head(calls).arg.high ELSE 0)
         + SumOfHigh(Tail(calls))

RECURSIVE SumOfLow(_)
SumOfLow(calls) ==
    IF calls = <<>> THEN 0 ELSE Head(calls).arg.num + SumOfLow(Tail(calls))

\* The finite durations add up to no more than 2^53, so that every partial
\* sum of them, in any order, is an integer the doubles hold exactly.
SumIsExact(calls) ==
    LET h == SumOfHigh(FiniteDurations(calls))
        l == SumOfLow(FiniteDurations(calls))
    IN  h = 0 \/ (h = 1 /\ l = 0)

\* C4, amended: when the durations given to addPlay are integers (or
\* Infinity) and the finite ones that are counted add up to no more than
\* 2^53, two fresh TrackNodes that receive the same addPlay and
\* addPlatformUri calls, in any two orders, end with the same totalPlays, the
\* same totalPlayTime and the same set of platform URIs. Whatever the
\* durations, totalPlays and the set of URIs are the same, and repeating any
\* of the addPlatformUri calls changes nothing.
C4_FoldOrderIndependentWhenExact ==
    FoldDone =>
        /\ foldA.totalPlays = foldB.totalPlays
        /\ SumIsExact(callsA) => foldA.totalPlayTime = foldB.totalPlayTime
        /\ Range(foldA.platformUris) = Range(foldB.platformUris)
        /\ \A i \in 1..Len(callsA) :
              callsA[i].op = "addPlatformUri" => Apply(foldA, callsA[i]) = foldA

\* C4 happens: two plays of different lengths and a URI, folded in two
\* different orders.
C4_Witness ==
    /\ FoldDone
    /\ callsA # callsB
    /\ callsA[1].op = "addPlay"
    /\ callsB[1].op = "addPlay"
    /\ callsA[1] # callsB[1]
    /\ foldA.totalPlays = 2
    /\ foldA.totalPlayTime = Num(3)
    /\ Len(foldA.platformUris) = 1

\* C5: addPlatformUri(u) with an accepted u that is already stored leaves
\* the URIs as they were, and no URI is ever stored twice.
C5_AddPlatformUriIdempotent ==
    /\ NoDuplicates(node.platformUris)
    /\ (/\ lastCall.op = "addPlatformUri"
        /\ NonBlankString(lastCall.arg)
        /\ lastCall.arg \in Range(prev.platformUris))
       => node.platformUris = prev.platformUris

\* C5 happens: the one stored URI has been added again.
C5_Witness ==
    /\ lastCall.op = "addPlatformUri"
    /\ prev.platformUris = <<lastCall.arg>>
    /\ node.platformUris = <<lastCall.arg>>

\* C6: addPlatformUri(u) adds u to the URIs if and only if u is a string with
\* at least one character that is not whitespace; for any other u it raises
\* no error and leaves the URIs as they were.
C6_AddPlatformUriAcceptsNonBlankStrings ==
    lastCall.op = "addPlatformUri" =>
        /\ thrown = "none"
        /\ IF NonBlankString(lastCall.arg)
           THEN Range(node.platformUris) = Range(prev.platformUris) \cup {lastCall.arg}
           ELSE node.platformUris = prev.platformUris

\* C6 happens: a string of tabs, newlines and spaces is passed to a TrackNode
\* that holds a URI.
C6_Witness ==
    /\ lastCall.op = "addPlatformUri"
    /\ lastCall.arg = Str(<<"\t", "\n", " ", " ">>)
    /\ Len(prev.platformUris) = 1
    /\ node.platformUris = prev.platformUris

\* C7: setPosition called with a position of which x, y or z is NaN or is not
\* a number does not throw and leaves the position as it was.
C7_SetPositionIgnoresNaN ==
    (/\ lastCall.op = "setPosition"
     /\ lastCall.arg.tag = "object"
     /\ \E c \in {lastCall.arg.x, lastCall.arg.y, lastCall.arg.z} :
           c.tag \in {"NaN", "string", "undefined", "null", "object"})
    => /\ thrown = "none"
       /\ node.position = prev.position

\* C7 happens: a position with z NaN is passed after a valid position was set.
C7_Witness ==
    /\ lastCall.op = "setPosition"
    /\ lastCall.arg.x = Num(1)
    /\ lastCall.arg.y = Num(1)
    /\ lastCall.arg.z = NaN
    /\ prev.position = [x |-> Num(5), y |-> Num(10), z |-> Num(15)]
    /\ node.position = prev.position

\* C8: setPosition(p) is accepted if and only if p.x, p.y and p.z are all
\* finite numbers: then the position stored has the coordinates of p; when a
\* coordinate is NaN, +Infinity or -Infinity the position is left as it was.
C8_SetPositionAcceptsFiniteOnly ==
    (lastCall.op = "setPosition" /\ lastCall.arg.tag = "object") =>
        IF Finite(lastCall.arg.x) /\ Finite(lastCall.arg.y) /\ Finite(lastCall.arg.z)
        THEN node.position =
                 [x |-> lastCall.arg.x, y |-> lastCall.arg.y, z |-> lastCall.arg.z]
        ELSE node.position = prev.position

\* C9: no call raises an error, whatever its argument: not the constructor
\* given an absent metadata, not setPosition given an absent position.
C9_NoCallThrows == thrown = "none"

\* v is absent or the empty string
EmptyOrAbsent(v) == v \in {Undefined, Null, Str(<<>>)}

\* C10: the constructor stores 'Unknown Artist' for an empty or absent
\* artist, 'Unknown Title' for an empty or absent title, the empty string
\* (never a label) for an empty or absent album, and every other field as
\* it is given.
C10_MetadataDefaults ==
    (lastCall.op = "new" /\ lastCall.arg.tag = "object") =>
        /\ thrown = "none"
        /\ node.metadata.artist =
               IF EmptyOrAbsent(lastCall.arg.artist) THEN UnknownArtist
               ELSE lastCall.arg.artist
        /\ node.metadata.title =
               IF EmptyOrAbsent(lastCall.arg.title) THEN UnknownTitle
               ELSE lastCall.arg.title
        /\ node.metadata.album =
               IF EmptyOrAbsent(lastCall.arg.album) THEN Str(<<>>)
               ELSE lastCall.arg.album

\* C10 happens: a TrackNode built of an empty artist, no title and no album.
C10_Witness ==
    /\ lastCall.op = "new"
    /\ lastCall.arg.tag = "object"
    /\ lastCall.arg.artist = Str(<<>>)
    /\ lastCall.arg.title = Undefined
    /\ lastCall.arg.album = Undefined
    /\ node.metadata =
           [artist |-> UnknownArtist, title |-> UnknownTitle, album |-> Str(<<>>)]

----------------------------------------------------------------------------
\* Decimal digits with no padding: no leading zero, but for "0" itself
Unpadded(s) == IsDigits(s) /\ (Len(s) > 1 => s[1] # "0")

\* C13: immediately after construction, for any identity and metadata, a
\* TrackNode has totalPlays = 0, totalPlayTime = 0, no platform URI, position
\* (0, 0, 0), getAvgPlayDuration() = 0 and getFormattedTotalTime() = "0:00".
C13_FreshNodeIsZeroed ==
    (lastCall.op = "new" /\ thrown = "none") =>
        /\ get(node, "totalPlays").ret = Num(0)
        /\ get(node, "totalPlayTime").ret = Num(0)
        /\ get(node, "platformUris").ret = [tag |-> "array", items |-> <<>>]
        /\ get(node, "position").ret = [tag |-> "object", x |-> Num(0), y |-> Num(0), z |-> Num(0)]
        /\ get(node, "getAvgPlayDuration").ret = Num(0)
        /\ get(node, "getFormattedTotalTime").ret = Str(<<"0", ":", "0", "0">>)

\* A node was constructed from metadata with a field missing.
C13_Witness ==
    /\ lastCall.op = "new"
    /\ thrown = "none"
    /\ lastCall.arg.tag = "object"
    /\ lastCall.arg.title = Undefined
    /\ node.universalId = <<"i", "d", "2">>

\* C14: getAvgPlayDuration() returns 0 when totalPlays = 0, and otherwise an
\* integer r nearest to totalPlayTime / totalPlays, an exact half rounded up:
\* 2*totalPlayTime - totalPlays < 2*totalPlays*r <= 2*totalPlayTime + totalPlays.
C14_AvgIsNearestInteger ==
    lastCall.op = "getAvgPlayDuration" =>
        LET r == lastCall.ret
            T == node.totalPlayTime
            n == node.totalPlays
        IN IF n = 0 THEN r = Num(0)
           ELSE /\ r.tag = "finite"
                /\ T.tag = "finite"
                /\ 2 * T.num - n < 2 * n * r.num
                /\ 2 * n * r.num <= 2 * T.num + n

\* C15: for a totalPlayTime T that is a non-negative integer of milliseconds,
\* getFormattedTotalTime() returns "<m>:<ss>", m = floor(T / 60000) written
\* without padding and not folded into hours, ss = floor(T / 1000) mod 60
\* written as exactly two digits; the sub-second remainder is discarded.
C15_FormattedTotalTime ==
    (lastCall.op = "getFormattedTotalTime" /\ node.totalPlayTime.tag = "finite") =>
        LET T == node.totalPlayTime.num
            s == lastCall.ret.str
            m == SubSeq(s, 1, Len(s) - 3)
            ss == SubSeq(s, Len(s) - 1, Len(s))
        IN /\ lastCall.ret.tag = "string"
           /\ Len(s) >= 4
           /\ s[Len(s) - 2] = ":"
           /\ Unpadded(m)
           /\ DecimalValue(m) = T \div 60000
           /\ IsDigits(ss)
           /\ DecimalValue(ss) = (T \div 1000) % 60

\* More than 59 minutes, fewer than ten seconds and a sub-second remainder were
\* formatted.
C15_Witness ==
    /\ lastCall.op = "getFormattedTotalTime"
    /\ node.totalPlayTime.tag = "finite"
    /\ node.totalPlayTime.num \div 60000 > 59
    /\ (node.totalPlayTime.num \div 1000) % 60 \in 1..9
    /\ node.totalPlayTime.num % 1000 # 0

\* The objects the caller made itself or was handed as copies
CallerOwned == {"ctorArg", "setPositionArg", "position", "platformUris"}

\* C11: a TrackNode shares no mutable object with its caller: a write to the
\* metadata object passed to the constructor, to a position object passed to
\* setPosition, or to a value returned by the position or platformUris
\* accessor leaves what the node reports for metadata, position and
\* platformUris as it was.
C11_NoSharedObject ==
    (lastStep.op = "write" /\ lastStep.from \in CallerOwned) =>
        LET now == Report(heap, self) IN
        /\ now.metadata = reported.metadata
        /\ now.position = reported.position
        /\ now.platformUris = reported.platformUris

\* The caller wrote to a position object that setPosition had accepted, and
\* the object now differs from the position the node keeps.
C11_Witness ==
    /\ lastStep.op = "write"
    /\ lastStep.from = "setPositionArg"
    /\ reported.position # Origin
    /\ \E c \in held : c.from = "setPositionArg" /\ heap[c.ref] # heap[self.position]

\* C12: once the node is constructed no step of the caller, a write to a
\* property of the object exposed as node.metadata included, and none of
\* addPlay, addPlatformUri and setPosition changes universalId,
\* metadata.artist, metadata.title or metadata.album.
C12_IdentityAndMetadataFrozen ==
    lastStep.op \notin {"idle", "new"} =>
        LET now == Report(heap, self) IN
        /\ now.universalId = reported.universalId
        /\ now.metadata = reported.metadata

\* The normalized (artist, title, album-or-empty) triple of a metadata
NormalizedTriple(m) ==
    [tag |-> "object",
     artist |-> normalizeString(m.artist),
     title |-> normalizeString(m.title),
     album |-> normalizeString(IF m.album = Undefined THEN Str(<<>>) ELSE m.album)]

\* C16, as stated: two metadata values that differ only in letter case, in
\* punctuation or in the length of white-space runs have the same identity,
\* a name written with and without punctuation between its letters included.
C16_SameIdentityAcrossSpellings ==
    (identity # Undefined /\ respellings > 0) => identityAlt = identity

\* The words of a string: its longest runs of letters and digits, in order
RECURSIVE Words(_)
Words(s) ==
    IF s = <<>> THEN <<>>
    ELSE IF ~IsLetterOrDigit(Head(s)) THEN Words(Tail(s))
    ELSE LET ends == {n \in 1..Len(s) :
                         /\ \A i \in 1..n : IsLetterOrDigit(s[i])
                         /\ n < Len(s) => ~IsLetterOrDigit(s[n + 1])}
             n == CHOOSE n \in ends : TRUE
         IN  <<SubSeq(s, 1, n)>> \o Words(SubSeq(s, n + 1, Len(s)))

\* The words of a field of metadata; a field that is absent has none
FieldWords(v) == IF v.tag = "string" THEN Words(v.str) ELSE <<>>

\* A word with its capital letters written small
Folded(word) ==
    [i \in 1..Len(word) |->
        IF word[i] \in Range(UpperCase) THEN OtherCase(word[i]) ELSE word[i]]

\* Two fields hold the same words, compared without regard to case
SameWords(v, w) ==
    LET a == FieldWords(v)
        b == FieldWords(w)
    IN  [k \in 1..Len(a) |-> Folded(a[k])] = [k \in 1..Len(b) |-> Folded(b[k])]

\* C16, amended: two metadata values have the same identity exactly when
\* artist, title and album hold, field by field, the same words in the same
\* order, compared without regard to case; a word is a longest run of ASCII
\* letters and digits. So the case of a letter, the length and the make-up
\* of a run of white space and punctuation between two words, and such runs at
\* the ends of a field do not matter; but a run of punctuation between two
\* letters separates two words as white space does, and a name written with
\* it and without it ("a--b" and "ab", "A/b" and "Ab") has two identities.
C16_SameIdentityExactlyWhenSameWords ==
    identity # Undefined =>
        ((identityAlt = identity)
            <=> \A field \in Fields : SameWords(given[field], respelled[field]))

\* Identities were generated for two spellings that differ in the case of a
\* letter and in the length of a run of punctuation between two letters.
C16_Witness ==
    /\ identity # Undefined
    /\ respellings = 2
    /\ given.artist = Str(<<"A", "/", "b">>)
    /\ respelled.artist = Str(<<"a", "/", "/", "b">>)
    /\ identityAlt = identity

\* C17: generateTrackId(m1) = generateTrackId(m2) whenever m1 and m2 normalize
\* field by field to the same triple, and two metadata values whose normalized
\* triples differ in a field never receive the same identity.
C17_IdentityIsTheNormalizedTriple ==
    identity # Undefined =>
        /\ (NormalizedTriple(respelled) = NormalizedTriple(given)) <=> (identityAlt = identity)
        /\ respellings = 0 =>
              \A m2 \in IdMetadata :
                  (NormalizedTriple(m2) = NormalizedTriple(given))
                      <=> (generateTrackId(m2) = identity)

\* An identity was generated for metadata whose fields hold the delimiter.
C17_Witness ==
    /\ identity = Str(<<"a", " ", "b", ":", ":", "b", " ", "a", ":", ":">>)
    /\ given.artist = Str(<<"a", ":", ":", "b">>)
    /\ given.title = Str(<<"b", ":", ":", "a">>)
    /\ respellings = 0

\* C20: parseTrackId(generateTrackId(m)) is exactly {artist:
\* normalizeString(m.artist), title: normalizeString(m.title), album:
\* normalizeString(m.album or "")}, empty normalized fields included.
C20_RoundTrip ==
    parsedId # Undefined => parsedId = NormalizedTriple(given)

\* An identity with an empty title and an absent album was parsed back.
C20_Witness ==
    /\ parsedId # Undefined
    /\ given.artist = Str(<<"A", "/", "b">>)
    /\ given.title = Str(<<>>)
    /\ given.album = Undefined
    /\ parsedId.artist = Str(<<"a", " ", "b">>)

\* Lower-case ASCII letters, digits and single spaces, no space at either end
WellFormed(s) ==
    /\ \A i \in 1..Len(s) : s[i] \in Range(LowerCase) \cup Range(DecimalDigits) \cup {" "}
    /\ s # <<>> => (s[1] # " " /\ s[Len(s)] # " ")
    /\ \A i \in 1..(Len(s) - 1) : ~(s[i] = " " /\ s[i + 1] = " ")

\* The number of occurrences of "::" in s, counted from the left without
\* overlap ("::::" holds two, as a split at "::" finds)
RECURSIVE Delimiters(_)
Delimiters(s) ==
    IF Len(s) < 2 THEN 0
    ELSE IF s[1] = ":" /\ s[2] = ":" THEN 1 + Delimiters(SubSeq(s, 3, Len(s)))
    ELSE Delimiters(Tail(s))

\* C18: normalizeString is idempotent: for every input s, null, undefined and
\* the empty string included, normalizeString(normalizeString(s)) =
\* normalizeString(s).
C18_NormalizeIdempotent ==
    Len(normOut) = 2 => normOut[2] = normOut[1]

\* A string with upper case, punctuation and white space at its end was
\* normalized twice.
C18_Witness ==
    /\ Len(normOut) = 2
    /\ normIn = Str(<<"B", "_", "\t">>)
    /\ normOut[1] = Str(<<"b">>)

\* C19: for every input s, normalizeString(s) never contains "::": it is made
\* of lower-case ASCII letters, digits and single spaces, with no space at
\* either end and no two spaces in a row; so every identity generateTrackId
\* produces contains "::" exactly twice.
C19_NormalizedHasNoDelimiter ==
    /\ Len(normOut) >= 1 =>
          /\ normOut[1].tag = "string"
          /\ WellFormed(normOut[1].str)
          /\ Delimiters(normOut[1].str) = 0
    /\ identity # Undefined =>
          /\ identity.tag = "string"
          /\ Delimiters(identity.str) = 2

\* An identity was generated from a string that holds the delimiter.
C19_Witness ==
    /\ normIn = Str(<<"a", ":", ":">>)
    /\ Len(normOut) >= 1
    /\ identity # Undefined
    /\ given.album = normIn

\* The place of the first "::" in s, 0 when there is none
FirstDelimiter(s) ==
    LET at == {i \in 1..(Len(s) - 1) : s[i] = ":" /\ s[i + 1] = ":"} IN
    IF at = {} THEN 0 ELSE CHOOSE i \in at : \A j \in at : i <= j

\* The segment of s before its first "::", all of s when there is none
FirstSegment(s) == IF FirstDelimiter(s) = 0 THEN s ELSE SubSeq(s, 1, FirstDelimiter(s) - 1)

\* What follows the first "::" of s, as <<rest>>; <<>> when there is none
Rest(s) == IF FirstDelimiter(s) = 0 THEN <<>> ELSE <<SubSeq(s, FirstDelimiter(s) + 2, Len(s))>>

\* C21: parseTrackId never fails on any string: it splits on "::", returns
\* segment 0 as artist, segment 1 as title and segment 2 as album, an absent
\* segment as the empty string, and drops every segment beyond index 2.
C21_ParseTakesThreeSegments ==
    (parsedId # Undefined /\ given = Undefined) =>
        LET s == identity.str
            r1 == Rest(s)
            r2 == IF r1 = <<>> THEN <<>> ELSE Rest(r1[1])
        IN parsedId =
              [tag |-> "object",
               artist |-> Str(FirstSegment(s)),
               title |-> Str(IF r1 = <<>> THEN <<>> ELSE FirstSegment(r1[1])),
               album |-> Str(IF r2 = <<>> THEN <<>> ELSE FirstSegment(r2[1]))]

\* An identity of four segments, the last one not empty, was parsed.
C21_Witness ==
    /\ identity = Str(<<"a", ":", ":", ":", ":", ":", ":", "b">>)
    /\ given = Undefined
    /\ parsedId # Undefined
    /\ parsedId.artist = Str(<<"a">>)
    /\ parsedId.album = Str(<<>>)

\* v is a record, not null, with a string artist, a string title and an album
\* that is absent or a string
ValidRecord(v) ==
    /\ v.tag = "object"
    /\ v.artist.tag = "string"
    /\ v.title.tag = "string"
    /\ v.album.tag \in {"undefined", "string"}

\* C22: safeGenerateTrackId(v) returns null exactly when v is not a non-null
\* record with a string artist, a string title and an album that is absent or
\* a string; for every accepted v, all fields empty included, it returns
\* generateTrackId(v), and it never raises.
C22_SafeGenerateRejectsInvalid ==
    identity # Undefined =>
        /\ (identity = Null) <=> ~ValidRecord(given)
        /\ ValidRecord(given) => identity = generateTrackId(given)

\* A record with a string artist and title and an album of null was rejected.
C22_Witness ==
    /\ identity = Null
    /\ given.tag = "object"
    /\ given.artist = Str(<<"a">>)
    /\ given.title = Str(<<>>)
    /\ given.album = Null

\* The reference of the entry is a string that begins with "spotify:track:".
IsTrackEntry(e) ==
    /\ e.spotify_track_uri.tag = "string"
    /\ Len(e.spotify_track_uri.str) >= 14
    /\ \A i \in 1..14 : e.spotify_track_uri.str[i] = TrackScheme[i]

\* Every element is a record whose reference is a string, null or missing.
EntriesOnly(entries) ==
    \A i \in 1..Len(entries) :
        /\ entries[i].tag = "object"
        /\ "spotify_track_uri" \in DOMAIN entries[i]
        /\ entries[i].spotify_track_uri.tag \in {"string", "null", "undefined"}

\* The file was read and parsed into an array, and the promise is settled.
LoadedAnArray ==
    /\ loaded.state \in {"fulfilled", "rejected"}
    /\ file.exists /\ file.parses
    /\ file.value.tag = "array"

\* C23: for every source sequence of raw entries, processStreamingHistoryFile
\* returns exactly the subsequence, in the original order and unaltered, of
\* the entries whose spotify_track_uri is a string starting with
\* "spotify:track:"; an empty source gives an empty result.
C23_LoadKeepsTrackEntries ==
    (LoadedAnArray /\ EntriesOnly(file.value.items)) =>
        /\ loaded.state = "fulfilled"
        /\ source = file.value
        /\ loaded.items = SelectSeq(source.items, IsTrackEntry)

\* A track entry was kept and an episode before it dropped, a task of the
\* caller having run while the promise was pending.
C23_Witness ==
    /\ loaded.state = "fulfilled"
    /\ otherTasks > 0
    /\ Len(source.items) = 2
    /\ source.items[1].tag = "object"
    /\ source.items[1].spotify_track_uri = Str(<<"s", "p", "o", "t", "i", "f", "y", ":",
                                                 "e", "p", "i", "s", "o", "d", "e", ":", "1">>)
    /\ loaded.items = <<source.items[2]>>

\* C24: the load never fails because of one entry: for a source that parsed
\* into a sequence, a null element, an element that is no record and a record
\* whose reference is no string are dropped without error, and a source with
\* no valid entry gives an empty result.
C24_LoadNeverFails ==
    LoadedAnArray =>
        /\ loaded.state = "fulfilled"
        /\ loaded.items =
               SelectSeq(file.value.items, LAMBDA e : e.tag = "object" /\ IsTrackEntry(e))

\* The name of an entry, as the play carries it: "" for null or missing
NameOrEmpty(v) == IF v \in {Null, Undefined} THEN Str(<<>>) ELSE v

\* C25: convertToTrackPlays is a one-to-one, order-preserving map: as many
\* plays as entries, the i-th play built from the i-th entry only, with the
\* entry's names as title, artist and album ("" for null or missing, never a
\* label), universalId the generateTrackId of that metadata, platformUri the
\* entry's spotify_track_uri, and msPlayed the entry's ms_played, 0 when that
\* is absent or null.
C25_ConvertMapsEntryByEntry ==
    trackPlays.state = "returned" =>
        /\ Len(trackPlays.items) = Len(loaded.items)
        /\ \A i \in 1..Len(loaded.items) :
              LET e == loaded.items[i]
                  play == trackPlays.items[i]
              IN /\ play.metadata.title = NameOrEmpty(e.master_metadata_track_name)
                 /\ play.metadata.artist = NameOrEmpty(e.master_metadata_album_artist_name)
                 /\ play.metadata.album = NameOrEmpty(e.master_metadata_album_album_name)
                 /\ play.universalId = generateTrackId(play.metadata)
                 /\ play.platformUri = e.spotify_track_uri
                 /\ play.msPlayed = (IF e.ms_played \in {Null, Undefined} THEN Num(0)
                                     ELSE e.ms_played)

\* Two entries were converted, the first with its names null, the second with
\* all of them present.
C25_Witness ==
    /\ trackPlays.state = "returned"
    /\ Len(trackPlays.items) = 2
    /\ loaded.items[1].master_metadata_album_artist_name = Null
    /\ trackPlays.items[1].universalId = Str(<<":", ":", ":", ":">>)
    /\ trackPlays.items[2].universalId =
           Str(<<"a", " ", "b", ":", ":", "t", ":", ":", "l">>)

\* C26: every play convertToTrackPlays produces has msPlayed >= 0, whatever
\* the ms_played of the accepted entry holds: a number of any sign, null, or
\* nothing.
C26_PlaysAreNotNegative ==
    trackPlays.state = "returned" =>
        \A i \in 1..Len(trackPlays.items) :
            /\ trackPlays.items[i].msPlayed.tag = "finite"
            /\ trackPlays.items[i].msPlayed.num >= 0

\* C27: each mutator changes only its own part of the TrackNode: addPlay
\* leaves the URIs and the position alone, addPlatformUri leaves totalPlays,
\* totalPlayTime and the position alone, setPosition leaves totalPlays,
\* totalPlayTime and the URIs alone, and the six reads change nothing.
C27_MutatorsKeepToTheirPart ==
    /\ lastCall.op = "addPlay" =>
          /\ node.platformUris = prev.platformUris
          /\ node.position = prev.position
    /\ lastCall.op = "addPlatformUri" =>
          /\ node.totalPlays = prev.totalPlays
          /\ node.totalPlayTime = prev.totalPlayTime
          /\ node.position = prev.position
    /\ lastCall.op = "setPosition" =>
          /\ node.totalPlays = prev.totalPlays
          /\ node.totalPlayTime = prev.totalPlayTime
          /\ node.platformUris = prev.platformUris
    /\ lastCall.op \in Getters => node = prev

\* A URI was added to a node that had a play recorded.
C27_Witness ==
    /\ lastCall.op = "addPlatformUri"
    /\ node.platformUris # prev.platformUris
    /\ prev.totalPlays = 1
    /\ node.totalPlays = 1

\* The arguments of a sequence that are finite and greater than zero
Accepted(args) == SelectSeq(args, FinitePositive)

\* The sum of a sequence of finite numbers
RECURSIVE Sum(_)
Sum(args) == IF args = <<>> THEN 0 ELSE Head(args).num + Sum(Tail(args))

AllFinite(args) == \A i \in 1..Len(args) : Finite(args[i])

\* C28: after any sequence of operations whose addPlay arguments are finite,
\* totalPlays is the number of the arguments greater than zero and
\* totalPlayTime is their sum, so that totalPlays = 0 exactly when
\* totalPlayTime = 0 and totalPlayTime >= totalPlays; a skip (0) is not
\* counted.
C28_TotalsAreTheAcceptedPlays ==
    AllFinite(played) =>
        /\ node.totalPlays = Len(Accepted(played))
        /\ node.totalPlayTime = Num(Sum(Accepted(played)))
        /\ node.totalPlays = 0 <=> node.totalPlayTime = Num(0)
        /\ node.totalPlayTime.num >= node.totalPlays

\* A skip, a play and a negative duration were given and a URI added: one
\* play is counted.
C28_Witness ==
    /\ played = <<Num(0), Num(2), Num(0 - 5)>>
    /\ node.totalPlays = 1
    /\ node.totalPlayTime = Num(2)
    /\ node.platformUris # <<>>

Smallest(args) == CHOOSE a \in Range(args) : \A b \in Range(args) : a.num <= b.num

Largest(args) == CHOOSE a \in Range(args) : \A b \in Range(args) : a.num >= b.num

\* getAvgPlayDuration() was called after plays with integer durations, one
\* of them at least accepted.
AverageRead ==
    /\ lastCall.op = "getAvgPlayDuration"
    /\ AllFinite(played)
    /\ Accepted(played) # <<>>

\* C30 as stated: with integer arguments and totalPlays > 0,
\* getAvgPlayDuration() lies between the smallest and the largest accepted
\* msPlayed, and it equals such a bound exactly when all accepted plays had
\* the same duration.
C30_AverageAtABoundOnlyWhenEqual ==
    AverageRead =>
        LET lo == Smallest(Accepted(played))
            hi == Largest(Accepted(played))
        IN /\ lo.num <= lastCall.ret.num /\ lastCall.ret.num <= hi.num
           /\ (lastCall.ret = lo \/ lastCall.ret = hi) <=> lo = hi

\* C30, amended: with integer arguments and totalPlays > 0,
\* getAvgPlayDuration() lies between the smallest and the largest accepted
\* msPlayed; it equals the smallest exactly when the mean is less than half
\* a millisecond above it and the largest exactly when the mean is at most
\* half a millisecond below it, so that it equals the common duration when
\* all accepted plays had the same duration.
C30_AverageWithinHalfOfABound ==
    AverageRead =>
        LET lo == Smallest(Accepted(played))
            hi == Largest(Accepted(played))
            n == Len(Accepted(played))
            total == Sum(Accepted(played))
        IN /\ lo.num <= lastCall.ret.num /\ lastCall.ret.num <= hi.num
           /\ lastCall.ret = lo <=> 2 * (total - n * lo.num) < n
           /\ lastCall.ret = hi <=> 2 * (n * hi.num - total) <= n
           /\ lo = hi => lastCall.ret = lo

\* The average of the plays 1 and 2 was read: it is 2, the largest.
C30_Witness ==
    /\ lastCall.op = "getAvgPlayDuration"
    /\ played = <<Num(1), Num(2)>>
    /\ lastCall.ret = Num(2)

\* C29: the URIs of a TrackNode only grow and are held as they were passed:
\* no operation removes a member, every member is a string with a character
\* that is not whitespace, a URI that passed the test is a member exactly as
\* it was passed (not trimmed), and there are no more members than calls of
\* addPlatformUri that passed the test.
C29_UrisGrowVerbatim ==
    /\ \A i \in 1..Len(prev.platformUris) :
          prev.platformUris[i] \in Range(node.platformUris)
    /\ \A i \in 1..Len(node.platformUris) : NonBlankString(node.platformUris[i])
    /\ (lastCall.op = "addPlatformUri" /\ NonBlankString(lastCall.arg)) =>
          lastCall.arg \in Range(node.platformUris)
    /\ Len(node.platformUris) <= uriCalls

\* "s " was added after " s": the two are two members.
C29_Witness ==
    /\ lastCall.op = "addPlatformUri"
    /\ lastCall.arg = Str(<<"s", " ">>)
    /\ node.platformUris = <<Str(<<" ", "s">>), Str(<<"s", " ">>)>>
    /\ uriCalls = 2

====
